---- MODULE Spec2Model ----
(***************************************************************************)
(* BananaFlow: the workflow execution engine of App.tsx (runWorkflow), the *)
(* generation service it calls (services/geminiService: withRetry,         *)
(* generateText, generateImage, editImage, executePreset, generateVideo)   *)
(* and the graph data of types.ts, as a state machine.                     *)
(***************************************************************************)
EXTENDS Integers, Sequences, FiniteSets, TLC

(***************************************************************************)
(* Bounds of the model.                                                    *)
(***************************************************************************)
\* SchedSpec: the scheduler is run on every graph of at most this many nodes
MaxSchedNodes == 3
\* ... and at most this many edges (parallel edges and self loops included)
MaxSchedEdges == 4
\* EngineSpec: workflows of at most this many nodes
MaxNodes == 3
\* ... and at most this many edges
MaxEdges == 2
\* the number of runs a behaviour starts
MaxRuns == 1
\* generateVideo: the status calls an operation takes at most
MaxPolls == 1
\* RetrySpec: the outcomes of the wrapped call that are laid down in advance
MaxAttemptsScripted == 4
\* LoadedSpec: loaded workflows of at most this many nodes
MaxLoadedNodes == 2
\* ... and at most this many edges
MaxLoadedEdges == 2
\* LiveSpec: loaded workflows of at most this many nodes
MaxLiveNodes == 2
\* ... and at most this many edges
MaxLiveEdges == 1
\* OrderSpec: loaded workflows of at most this many nodes
MaxOrderNodes == 3
\* ... and at most this many edges
MaxOrderEdges == 2
\* VideoSpec: the status calls one call of generateVideo makes at most
MaxVideoPolls == 8
\* SessionSpec: loaded workflows of at most this many nodes
MaxSessionNodes == 2
\* ... and at most this many edges
MaxSessionEdges == 1
\* ... the runs of a session
MaxSessionRuns == 2
\* ... and the editor operations of a session
MaxSessionOps == 4
\* EditorSpec: nodes are added from the toolbar while fewer ids than this are given
MaxAdded == 2
\* ... nodes are pasted while no more ids than this are given
MaxNodeIds == 4
\* ... edges are created while the graph holds fewer than this
MaxEditorEdges == 2
\* ... and a session is at most this many operations long
MaxEditorOps == 8

(***************************************************************************)
(* Program constants.                                                      *)
(***************************************************************************)
MAX_RETRIES == 3
INITIAL_DELAY_MS == 2000

(***************************************************************************)
(* JavaScript values that flow through ports and are stored as content.    *)
(* One record shape for all of them: tag is the JS type, s the characters  *)
(* of a string (or the text of a {progress} content object), image / text  *)
(* the fields of an {image, text} object (textIsNull: text is null).       *)
(***************************************************************************)
Undefined == [tag |-> "undefined", s |-> "", image |-> "", text |-> "", textIsNull |-> FALSE]
Null == [tag |-> "null", s |-> "", image |-> "", text |-> "", textIsNull |-> FALSE]
Str(x) == [tag |-> "string", s |-> x, image |-> "", text |-> "", textIsNull |-> FALSE]
Obj(img, txt, txtNull) == [tag |-> "object", s |-> "", image |-> img, text |-> txt, textIsNull |-> txtNull]
Progress(msg) == [tag |-> "progress", s |-> msg, image |-> "", text |-> "", textIsNull |-> FALSE]

\* JS truthiness: undefined, null and "" are falsy
Truthy(v) == v.tag \in {"object", "progress"} \/ (v.tag = "string" /\ v.s # "")

(***************************************************************************)
(* types.ts                                                                *)
(***************************************************************************)
NodeType == {"TEXT_INPUT", "IMAGE_INPUT", "TEXT_GENERATOR", "IMAGE_EDITOR",
             "VIDEO_GENERATOR", "OUTPUT_DISPLAY", "PROMPT_PRESET"}
NodeStatus == {"IDLE", "PROCESSING", "COMPLETED", "ERROR"}
PortType == {"text", "image", "video", "any"}

\* A handle id `${nodeId}-${suffix}` is the pair of the node id and the suffix.
HandleId(id, suffix) == <<id, suffix>>
Port(id, suffix, type) == [id |-> HandleId(id, suffix), type |-> type]

NoError == ""

(***************************************************************************)
(* PRESET_CONFIGS of presets.ts, as the specification describes its        *)
(* entries: a preset with two image inputs (which createNode folds into    *)
(* one multi-image handle), one with a single image input and one with     *)
(* mixed inputs, two images and a text (which createNode leaves as three   *)
(* handles). Workflows are run with the first two.                         *)
(***************************************************************************)
PresetIds == {"multi", "single"}
PRESET_CONFIGS ==
  [p \in PresetIds \cup {"mixed"} |->
     CASE p = "multi" ->
            [prompt |-> "merge the images",
             inputs |-> <<"image", "image">>, outputs |-> <<"image">>]
       [] p = "single" ->
            [prompt |-> "restyle the image",
             inputs |-> <<"image">>, outputs |-> <<"image">>]
       [] p = "mixed" ->
            [prompt |-> "blend the images as told",
             inputs |-> <<"image", "image", "text">>, outputs |-> <<"image">>]]

PresetInputSuffix(index) ==
  IF index = 1 THEN "input-0" ELSE IF index = 2 THEN "input-1" ELSE "input-2"
PresetOutputSuffix(index) == IF index = 1 THEN "output-0" ELSE "output-1"

\* createNode: the node of a kind, with the ports the kind fixes
createNode(id, type, presetId) ==
  LET base == [id |-> id, type |-> type, status |-> "IDLE", content |-> Null,
               errorMessage |-> NoError, isMuted |-> FALSE, prompt |-> "",
               inputs |-> <<>>, outputs |-> <<>>]
  IN CASE type = "TEXT_INPUT" ->
            [base EXCEPT !.outputs = <<Port(id, "output", "text")>>]
       [] type = "IMAGE_INPUT" ->
            [base EXCEPT !.outputs = <<Port(id, "output", "image")>>]
       [] type = "TEXT_GENERATOR" ->
            [base EXCEPT !.inputs = <<Port(id, "input", "text")>>,
                         !.outputs = <<Port(id, "output", "text")>>]
       [] type = "IMAGE_EDITOR" ->
            [base EXCEPT !.inputs = <<Port(id, "input-image", "image"), Port(id, "input-text", "text")>>,
                         !.outputs = <<Port(id, "output-image", "image"), Port(id, "output-text", "text")>>]
       [] type = "VIDEO_GENERATOR" ->
            [base EXCEPT !.inputs = <<Port(id, "input-image", "image"), Port(id, "input-text", "text")>>,
                         !.outputs = <<Port(id, "output", "video")>>]
       [] type = "OUTPUT_DISPLAY" ->
            [base EXCEPT !.inputs = <<Port(id, "input", "any")>>]
       [] type = "PROMPT_PRESET" ->
            LET config == PRESET_CONFIGS[presetId]
                allImages == \A i \in 1..Len(config.inputs) : config.inputs[i] = "image"
            IN [base EXCEPT
                  !.prompt = config.prompt,
                  !.inputs = IF Len(config.inputs) > 1 /\ allImages
                             THEN <<Port(id, "input-multi-image", "image")>>
                             ELSE [i \in 1..Len(config.inputs) |->
                                     Port(id, PresetInputSuffix(i), config.inputs[i])],
                  !.outputs = [i \in 1..Len(config.outputs) |->
                                 Port(id, PresetOutputSuffix(i), config.outputs[i])]]

Edge(id, sourceNodeId, sourceHandleId, targetNodeId, targetHandleId) ==
  [id |-> id, sourceNodeId |-> sourceNodeId, sourceHandleId |-> sourceHandleId,
   targetNodeId |-> targetNodeId, targetHandleId |-> targetHandleId]

(***************************************************************************)
(* Sequence helpers.                                                       *)
(***************************************************************************)
Range(seq) == {seq[i] : i \in 1..Len(seq)}
SeqsUpTo(S, n) == UNION {[1..k -> S] : k \in 0..n}

RECURSIVE Filter(_, _)
\* Array.prototype.filter for a predicate given as the set of kept elements
Filter(seq, keep) ==
  IF seq = <<>> THEN <<>>
  ELSE IF Head(seq) \in keep THEN <<Head(seq)>> \o Filter(Tail(seq), keep)
       ELSE Filter(Tail(seq), keep)

(***************************************************************************)
(* The state.                                                              *)
(***************************************************************************)
VARIABLES
  nodes,           \* React state `nodes`: node id -> node
  nodeOrder,       \* key order of `nodes` (Object.keys: insertion order)
  edges,           \* React state `edges`, as Object.values lists them
  history,         \* React state `history`
  isProcessing,    \* React state `isProcessing`
  pc,              \* where runWorkflow stands: "idle", "loop", "await"
  capNodes,        \* `nodes` as the running runWorkflow closure sees it
  capEdges,        \* `edges` as the running runWorkflow closure sees it
  executionOrder,  \* runWorkflow's executionOrder
  idx,             \* position of the for loop in executionOrder
  nodeOutputs,     \* runWorkflow's nodeOutputs (handle id -> value)
  inputs,          \* the inputs gathered for the node being executed
  calls,           \* the calls made to the generation service, in order
  runs,            \* the number of runWorkflow calls so far
  retry,           \* one call of a function wrapped by withRetry
  connectingEdge,  \* the ref `connectingEdge`: the source of the edge being dragged
  selectedNodeIds, \* React state `selectedNodeIds`
  clipboard,       \* the ref `clipboard`
  uuids,           \* the number of node ids crypto.randomUUID() has given
  editorOps,       \* the number of editor operations so far
  lastDrop,        \* where the last connection drag was released, and to what effect
  video            \* one call of generateVideo

vars == <<nodes, nodeOrder, edges, history, isProcessing, pc, capNodes, capEdges,
          executionOrder, idx, nodeOutputs, inputs, calls, runs, retry,
          connectingEdge, selectedNodeIds, clipboard, uuids, editorOps, lastDrop, video>>

\* the state of the graph editor
editorVars == <<connectingEdge, selectedNodeIds, clipboard, uuids, editorOps, lastDrop>>

\* connectingEdge.current === null
NoConnection == [active |-> FALSE, sourceNodeId |-> 0, sourceHandleId |-> <<0, "">>]
\* clipboard.current === null
NoClipboard == [set |-> FALSE, nodes |-> <<>>, edges |-> <<>>]

\* no connection drag was released yet
NoDrop == [on |-> "none", target |-> 0, created |-> FALSE]

\* the editor as the application starts it
EditorInit ==
  /\ connectingEdge = NoConnection
  /\ selectedNodeIds = {}
  /\ clipboard = NoClipboard
  /\ uuids = 0
  /\ editorOps = 0
  /\ lastDrop = NoDrop

(***************************************************************************)
(* JavaScript strings.                                                     *)
(***************************************************************************)
\* String.prototype.startsWith
StartsWith(str, prefix) ==
  Len(str) >= Len(prefix) /\ SubSeq(str, 1, Len(prefix)) = prefix

\* String.prototype.includes
Includes(str, sub) ==
  \E i \in 1..(Len(str) - Len(sub) + 1) : SubSeq(str, i, i + Len(sub) - 1) = sub

\* str.split(sep)[0] and str.split(sep)[1] for a one-character separator
\* ("" stands for an undefined second piece)
SepPositions(str, sep) == {i \in 1..Len(str) : SubSeq(str, i, i) = sep}
Min(S) == CHOOSE x \in S : \A y \in S : x <= y
SplitFirst(str, sep) ==
  IF SepPositions(str, sep) = {} THEN str
  ELSE SubSeq(str, 1, Min(SepPositions(str, sep)) - 1)
SplitSecond(str, sep) ==
  IF SepPositions(str, sep) = {} THEN ""
  ELSE LET first == Min(SepPositions(str, sep))
           rest == SubSeq(str, first + 1, Len(str))
       IN SplitFirst(rest, sep)

\* String.prototype.toLowerCase, for the letters A-Z
UpperCase == "ABCDEFGHIJKLMNOPQRSTUVWXYZ"
LowerCase == "abcdefghijklmnopqrstuvwxyz"
LowerChar(c) ==
  IF SepPositions(UpperCase, c) = {} THEN c
  ELSE SubSeq(LowerCase, Min(SepPositions(UpperCase, c)), Min(SepPositions(UpperCase, c)))
RECURSIVE ToLowerCase(_)
ToLowerCase(str) ==
  IF Len(str) = 0 THEN ""
  ELSE LowerChar(SubSeq(str, 1, 1)) \o ToLowerCase(SubSeq(str, 2, Len(str)))

(***************************************************************************)
(* services/geminiService: withRetry.                                      *)
(***************************************************************************)
\* What an API call may throw: an Error with a message (isError), or a value
\* that is no Error.
Thrown429Json == "{\"error\":{\"code\":429,\"message\":\"Quota exceeded\",\"status\":\"RESOURCE_EXHAUSTED\"}}"
ThrownExhaustedJson == "{\"error\":{\"code\":8,\"message\":\"Out of quota\",\"status\":\"RESOURCE_EXHAUSTED\"}}"
Thrown503Json == "{\"error\":{\"code\":503,\"message\":\"Overloaded\",\"status\":\"UNAVAILABLE\"}}"
ErrorOf(message) == [isError |-> TRUE, message |-> message]
ThrownValues ==
  {ErrorOf(Thrown429Json), ErrorOf(ThrownExhaustedJson), ErrorOf(Thrown503Json),
   ErrorOf("Rate Limit reached"), ErrorOf("HTTP 429 Too Many Requests"),
   ErrorOf("network down"), ErrorOf("429"), ErrorOf(""),
   [isError |-> FALSE, message |-> "429 rate limit"]}
NoThrown == [isError |-> FALSE, message |-> "<none>"]

\* JSON.parse(message) for the messages above: whether it parses, and the
\* error.code and error.status of the parsed value (0 and "" where absent)
JsonParse(message) ==
  CASE message = Thrown429Json -> [ok |-> TRUE, code |-> 429, status |-> "RESOURCE_EXHAUSTED"]
    [] message = ThrownExhaustedJson -> [ok |-> TRUE, code |-> 8, status |-> "RESOURCE_EXHAUSTED"]
    [] message = Thrown503Json -> [ok |-> TRUE, code |-> 503, status |-> "UNAVAILABLE"]
    [] message = "429" -> [ok |-> TRUE, code |-> 0, status |-> ""]
    [] OTHER -> [ok |-> FALSE, code |-> 0, status |-> ""]

\* isRateLimitError as the catch block of withRetry computes it
IsRateLimitError(error) ==
  IF error.isError /\ error.message # ""
  THEN LET errorDetails == JsonParse(error.message)
       IN IF errorDetails.ok
          THEN errorDetails.code = 429 \/ errorDetails.status = "RESOURCE_EXHAUSTED"
          ELSE \/ Includes(error.message, "429")
               \/ Includes(ToLowerCase(error.message), "rate limit")
  ELSE FALSE

\* ShouldRetry with every error retried
ShouldRetry_AnyError(error, i) == i < MAX_RETRIES - 1

\* ShouldRetry with the attempts counted one too far
ShouldRetry_OffByOne(error, i) == IsRateLimitError(error) /\ i < MAX_RETRIES

\* if (isRateLimitError) { if (i < MAX_RETRIES - 1) { ...; await delay(waitTime); continue; } }
ShouldRetry(error, i) == IsRateLimitError(error) /\ i < MAX_RETRIES - 1

\* the value a successful API call resolves to
ApiResponse == "response"
\* what the wrapped call does at one invocation: resolve, or throw a value
AttemptOutcomes == {[ok |-> TRUE, thrown |-> NoThrown]} \cup {[ok |-> FALSE, thrown |-> e] : e \in ThrownValues}
\* Math.random() * 1000, sampled
JitterSamples == {0, 999}

\* retry: pc is "none" (no call under way), "call" (about to invoke apiCall),
\* "delay" (in await delay(waitTime)), "returned" or "threw"; script[k] is
\* what the k-th invocation of apiCall will do; invocations counts them;
\* waits lists the waitTimes slept; result / error is what the wrapper gave.
NoRetry ==
  [pc |-> "none", i |-> 0, script |-> <<>>, invocations |-> 0, waits |-> <<>>,
   lastError |-> NoThrown, result |-> "", error |-> NoThrown]

\* video: pc is "none" (no call under way), "begin", "sleep" (in the await of
\* the polling interval), "status" (about to make the status call), "fetch" or
\* "returned"; done and uri are operation.done and whether the operation
\* holds a video uri; polls counts the status calls; failed tells that an
\* error was caught; events lists the calls, sleeps and progress callbacks
NoVideo ==
  [pc |-> "none", hasImage |-> FALSE, prompt |-> "", done |-> FALSE, uri |-> FALSE,
   polls |-> 0, failed |-> FALSE, events |-> <<>>, result |-> ""]

\* one pass of the for loop body: the call and the catch block up to the delay
RetryAttempt ==
  /\ retry.pc = "call"
  /\ retry.i < MAX_RETRIES
  /\ retry.invocations < Len(retry.script)
  /\ LET outcome == retry.script[retry.invocations + 1]
         called == [retry EXCEPT !.invocations = @ + 1]
     IN IF outcome.ok
        THEN retry' = [called EXCEPT !.pc = "returned", !.result = ApiResponse]
        ELSE IF ShouldRetry(outcome.thrown, retry.i)
             THEN \E jitter \in JitterSamples :
                    retry' = [called EXCEPT
                                !.pc = "delay", !.lastError = outcome.thrown,
                                !.waits = Append(@, INITIAL_DELAY_MS * (2 ^ retry.i) + jitter)]
             ELSE retry' = [called EXCEPT !.pc = "threw", !.lastError = outcome.thrown,
                                          !.error = outcome.thrown]
  /\ UNCHANGED <<nodes, nodeOrder, edges, history, isProcessing, pc, capNodes, capEdges,
                 executionOrder, idx, nodeOutputs, inputs, calls, runs>>
  /\ UNCHANGED <<editorVars, video>>

\* the delay is over: continue, i++, and the loop test; when the loop has
\* run out, the throw lastError that follows it
RetryContinue ==
  /\ retry.pc = "delay"
  /\ retry' = IF retry.i + 1 < MAX_RETRIES
              THEN [retry EXCEPT !.i = @ + 1, !.pc = "call"]
              ELSE [retry EXCEPT !.i = @ + 1, !.pc = "threw", !.error = retry.lastError]
  /\ UNCHANGED <<nodes, nodeOrder, edges, history, isProcessing, pc, capNodes, capEdges,
                 executionOrder, idx, nodeOutputs, inputs, calls, runs>>
  /\ UNCHANGED <<editorVars, video>>

(***************************************************************************)
(* services/geminiService: the calls runWorkflow makes. `api` is what the  *)
(* retry-wrapped API call underneath does this time; each function returns *)
(* its result and a record of the call: api, whether it reached the API;   *)
(* failed, whether the API call gave up with an error or, for a video, the *)
(* operation completed without a video uri.                                *)
(***************************************************************************)
\* the error a retry-wrapped API call gives up with
ApiErrorMessage == "service unavailable"
\* formatError for an Error whose message is no JSON
formatError(message) == "Error: " \o message

GeneratedText == "generated text"
GeneratedImageBytes == "GEN"
EditedImageBytes == "NEW"
ResponseText == "response text"
VideoObjectUrl == "blob:video"

NoFile == [ok |-> FALSE, data |-> "", mimeType |-> ""]
NoCall == [fn |-> "none", node |-> 0, api |-> FALSE, failed |-> FALSE, prompt |-> Undefined, images |-> <<>>, statusCalls |-> 0]
Call(fn, api, prompt, images) == [NoCall EXCEPT !.fn = fn, !.api = api, !.prompt = prompt, !.images = images]
Failing(call, api) == [call EXCEPT !.failed = (api = "throw")]

\* generateText(prompt)
generateText(prompt, api) ==
  IF ~Truthy(prompt)
  THEN [result |-> Str("Error: Prompt is empty."), call |-> Call("generateText", FALSE, prompt, <<>>)]
  ELSE [result |-> IF api = "throw" THEN Str(formatError(ApiErrorMessage)) ELSE Str(GeneratedText),
        call |-> Failing(Call("generateText", TRUE, prompt, <<>>), api)]

\* generateImage(prompt); api: "throw", "image" (an image came back), "none"
generateImage(prompt, api) ==
  IF ~Truthy(prompt)
  THEN [result |-> Str("Error: Prompt is empty."), call |-> Call("generateImage", FALSE, prompt, <<>>)]
  ELSE [result |-> CASE api = "throw" -> Str(formatError(ApiErrorMessage))
                     [] api \in {"image", "image+text"} ->
                          Str("data:" \o "image/jpeg" \o ";base64," \o GeneratedImageBytes)
                     [] OTHER -> Str("Error: Image generation failed to produce an image."),
        call |-> Failing(Call("generateImage", TRUE, prompt, <<>>), api)]

\* what editImage and executePreset make of the response parts:
\* {newBase64Image, text} with "" for null
PartsResult(api) ==
  CASE api = "throw" -> [newBase64Image |-> "", text |-> formatError(ApiErrorMessage)]
    [] api = "image+text" -> [newBase64Image |-> EditedImageBytes, text |-> ResponseText]
    [] api = "image" -> [newBase64Image |-> EditedImageBytes, text |-> ""]
    [] api = "text" -> [newBase64Image |-> "", text |-> ResponseText]
    [] OTHER -> [newBase64Image |-> "", text |-> ""]

\* editImage(base64Image, mimeType, prompt)
editImage(base64Image, mimeType, prompt, api) ==
  IF base64Image = "" \/ ~Truthy(prompt)
  THEN [result |-> [newBase64Image |-> "", text |-> "Error: Image or prompt is missing."],
        call |-> Call("editImage", FALSE, prompt, <<[ok |-> TRUE, data |-> base64Image, mimeType |-> mimeType]>>)]
  ELSE [result |-> PartsResult(api),
        call |-> Failing(Call("editImage", TRUE, prompt, <<[ok |-> TRUE, data |-> base64Image, mimeType |-> mimeType]>>), api)]

\* executePreset(inputs, prompt)
executePreset(imageFiles, prompt, api) ==
  IF Len(imageFiles) = 0 \/ prompt = ""
  THEN [result |-> [newBase64Image |-> "", text |-> "Error: Image(s) or prompt is missing."],
        call |-> Call("executePreset", FALSE, Str(prompt), imageFiles)]
  ELSE [result |-> PartsResult(api),
        call |-> Failing(Call("executePreset", TRUE, Str(prompt), imageFiles), api)]

\* generateVideo(base64Image, mimeType, prompt, onProgress). ops lists what
\* the initiating call (ops[1]) and then each status call answer: "throw"
\* (the retry wrapper gave up), "pending", "done" (with a video uri) or
\* "doneNoUri". progress lists the messages handed to onProgress.
generateVideo(base64Image, mimeType, prompt, ops) ==
  LET image == IF base64Image # "" /\ mimeType # ""
               THEN <<[ok |-> TRUE, data |-> base64Image, mimeType |-> mimeType]>> ELSE <<>>
      call(api, n) == [Call("generateVideo", api, prompt, image) EXCEPT !.statusCalls = n]
      failed(message, progress, n) ==
        [result |-> Str(formatError(message)), call |-> [call(TRUE, n) EXCEPT !.failed = TRUE],
         progress |-> Append(progress, formatError(message))]
      RECURSIVE Poll(_, _)
      \* the operation is ops[k], obtained after k - 1 status calls
      Poll(k, progress) ==
        IF ops[k] = "pending"
        THEN LET checking == Append(progress, "Checking video status...")
             IN IF ops[k + 1] = "throw"
                THEN failed(ApiErrorMessage, checking, k)
                ELSE Poll(k + 1, checking)
        ELSE LET fetching == Append(progress, "Video processing complete. Fetching video...")
             IN IF ops[k] = "doneNoUri"
                THEN failed("Video URI not found in response.", fetching, k - 1)
                ELSE [result |-> Str(VideoObjectUrl), call |-> call(TRUE, k - 1),
                      progress |-> Append(fetching, "Video fetched successfully.")]
  IN IF ~Truthy(prompt)
     THEN [result |-> Str("Error: Prompt is empty."), call |-> call(FALSE, 0), progress |-> <<>>]
     ELSE IF ops[1] = "throw"
          THEN failed(ApiErrorMessage, <<"Starting video generation...">>, 0)
          ELSE Poll(1, <<"Starting video generation...",
                         "Video processing has started. This may take a few minutes...">>)

(***************************************************************************)
(* services/geminiService: generateVideo, step by step. Each action runs   *)
(* the function from one await to the next; the events are the calls to    *)
(* the API, the sleeps and the progress callbacks, in the order they occur. *)
(***************************************************************************)
\* everything but the call of generateVideo
notVideo == <<nodes, nodeOrder, edges, history, isProcessing, pc, capNodes, capEdges,
              executionOrder, idx, nodeOutputs, inputs, calls, runs, retry, editorVars>>

\* what the initiating call or a status call answers: it throws (the retry
\* wrapper gave up), or it gives the operation, not done, done with a video
\* uri, or done without one
VideoAnswers == {"throw", "pending", "done", "doneNoUri"}
\* the polling interval, in ms
POLL_INTERVAL_MS == 10000

\* an event: a progress callback with its message, the initiating call
\* ("initiate") or a status call ("status") with its answer, a sleep with its
\* length, or the fetch of the video
Ev(kind, text) == [kind |-> kind, text |-> text, ms |-> 0, image |-> FALSE]

\* the catch block: onProgress(errorMessage); return errorMessage
VideoCaught(v, message, evs) ==
  [v EXCEPT !.pc = "returned", !.failed = TRUE, !.result = formatError(message),
            !.events = Append(evs, Ev("progress", formatError(message)))]

\* the operation an answer gives, and the test of the while loop on it
VideoOperation(v, answer, evs) ==
  [v EXCEPT !.events = evs, !.done = answer # "pending", !.uri = answer = "done",
            !.pc = IF answer = "pending" THEN "sleep" ELSE "fetch"]

\* generateVideo from its call to the end of the initiating call
VideoBegin ==
  /\ video.pc = "begin"
  /\ IF video.prompt = ""
     THEN video' = [video EXCEPT !.pc = "returned", !.result = "Error: Prompt is empty."]
     ELSE \E answer \in VideoAnswers :
            LET evs == video.events \o
                         <<Ev("progress", "Starting video generation..."),
                           [Ev("initiate", answer) EXCEPT !.image = video.hasImage]>>
            IN IF answer = "throw"
               THEN video' = VideoCaught(video, ApiErrorMessage, evs)
               ELSE video' = VideoOperation(video, answer,
                               Append(evs, Ev("progress",
                                 "Video processing has started. This may take a few minutes...")))
  /\ UNCHANGED notVideo

\* await new Promise(resolve => setTimeout(resolve, 10000))
VideoSleep ==
  /\ video.pc = "sleep"
  /\ video.polls < MaxVideoPolls
  /\ video' = [video EXCEPT !.pc = "status",
                            !.events = Append(@, [Ev("sleep", "") EXCEPT !.ms = POLL_INTERVAL_MS])]
  /\ UNCHANGED notVideo

\* VideoStatus with the status call made before the progress callback
VideoStatus_CallFirst ==
  /\ video.pc = "status"
  /\ \E answer \in VideoAnswers :
       LET evs == video.events \o
                    <<Ev("status", answer), Ev("progress", "Checking video status...")>>
           polled == [video EXCEPT !.polls = @ + 1]
       IN IF answer = "throw"
          THEN video' = VideoCaught(polled, ApiErrorMessage, evs)
          ELSE video' = VideoOperation(polled, answer, evs)
  /\ UNCHANGED notVideo

\* VideoStatus with the loop left after the status call, whatever it answers
VideoStatus_OnePoll ==
  /\ video.pc = "status"
  /\ \E answer \in VideoAnswers :
       LET evs == video.events \o
                    <<Ev("progress", "Checking video status..."), Ev("status", answer)>>
           polled == [video EXCEPT !.polls = @ + 1]
       IN IF answer = "throw"
          THEN video' = VideoCaught(polled, ApiErrorMessage, evs)
          ELSE video' = [VideoOperation(polled, answer, evs) EXCEPT !.pc = "fetch"]
  /\ UNCHANGED notVideo

\* onProgress("Checking video status..."); operation = await getVideosOperationWithRetry(...)
\* and the test of the while loop
VideoStatus ==
  /\ video.pc = "status"
  /\ \E answer \in VideoAnswers :
       LET evs == video.events \o
                    <<Ev("progress", "Checking video status..."), Ev("status", answer)>>
           polled == [video EXCEPT !.polls = @ + 1]
       IN IF answer = "throw"
          THEN video' = VideoCaught(polled, ApiErrorMessage, evs)
          ELSE video' = VideoOperation(polled, answer, evs)
  /\ UNCHANGED notVideo

\* after the loop: the download link, the fetch of the video and the return
VideoFetch ==
  /\ video.pc = "fetch"
  /\ LET evs == Append(video.events,
                       Ev("progress", "Video processing complete. Fetching video..."))
     IN IF ~video.uri
        THEN video' = VideoCaught(video, "Video URI not found in response.", evs)
        ELSE \E fetched \in BOOLEAN :
               IF fetched
               THEN video' = [video EXCEPT
                                !.pc = "returned", !.result = VideoObjectUrl,
                                !.events = evs \o <<Ev("fetch", "ok"),
                                                    Ev("progress", "Video fetched successfully.")>>]
               ELSE video' = VideoCaught(video, "Failed to fetch",
                                         Append(evs, Ev("fetch", "failed")))
  /\ UNCHANGED notVideo

(***************************************************************************)
(* runWorkflow, one node.                                                  *)
(***************************************************************************)
Get(f, k) == IF k \in DOMAIN f THEN f[k] ELSE Undefined

\* processImageInput (for the data URLs that image content is held as)
processImageInput(imageInput) ==
  IF ~Truthy(imageInput) THEN NoFile
  ELSE IF imageInput.tag = "string" /\ StartsWith(imageInput.s, "data:image")
       THEN LET meta == SplitFirst(imageInput.s, ",")
                base64 == SplitSecond(imageInput.s, ",")
            IN [ok |-> TRUE, data |-> base64,
                mimeType |-> SplitFirst(SplitSecond(meta, ":"), ";")]
       ELSE NoFile

\* const inputEdges = Object.values(edges).filter(e => e.targetNodeId === nodeId);
\* for (const edge of inputEdges) inputs[edge.targetHandleId] = nodeOutputs[edge.sourceHandleId];
GatherInputs(nodeId, es, outs) ==
  LET into == {i \in 1..Len(es) : es[i].targetNodeId = nodeId}
      last(h) == CHOOSE i \in into :
                   /\ es[i].targetHandleId = h
                   /\ \A j \in into : es[j].targetHandleId = h => j <= i
  IN [h \in {es[i].targetHandleId : i \in into} |-> Get(outs, es[last(h)].sourceHandleId)]

RECURSIVE MapEdgeValues_Reversed(_, _, _, _)
\* MapEdgeValues with the values collected newest edge first
MapEdgeValues_Reversed(es, nodeId, handle, outs) ==
  IF es = <<>> THEN <<>>
  ELSE IF Head(es).targetNodeId = nodeId /\ Head(es).targetHandleId = handle
       THEN MapEdgeValues_Reversed(Tail(es), nodeId, handle, outs) \o <<Get(outs, Head(es).sourceHandleId)>>
       ELSE MapEdgeValues_Reversed(Tail(es), nodeId, handle, outs)

RECURSIVE MapEdgeValues(_, _, _, _)
\* Object.values(edges).filter(e => e.targetNodeId === nodeId && e.targetHandleId === handle)
\*   .map(edge => nodeOutputs[edge.sourceHandleId])
MapEdgeValues(es, nodeId, handle, outs) ==
  IF es = <<>> THEN <<>>
  ELSE IF Head(es).targetNodeId = nodeId /\ Head(es).targetHandleId = handle
       THEN <<Get(outs, Head(es).sourceHandleId)>> \o MapEdgeValues(Tail(es), nodeId, handle, outs)
       ELSE MapEdgeValues(Tail(es), nodeId, handle, outs)

\* the values a preset node collects as its images
ImageInputsRaw(node, ins, es, outs) ==
  IF \E i \in 1..Len(node.inputs) : node.inputs[i].id = HandleId(node.id, "input-multi-image")
  THEN MapEdgeValues(es, node.id, HandleId(node.id, "input-multi-image"), outs)
  ELSE [i \in 1..Len(node.inputs) |-> Get(ins, node.inputs[i].id)]

RECURSIVE ImageFiles(_)
\* (await Promise.all(imageInputsRaw.map(processImageInput))).filter(Boolean)
ImageFiles(raw) ==
  IF raw = <<>> THEN <<>>
  ELSE IF processImageInput(Head(raw)).ok
       THEN <<processImageInput(Head(raw))>> \o ImageFiles(Tail(raw))
       ELSE ImageFiles(Tail(raw))

DataUrl(mimeType, base64) == "data:" \o mimeType \o ";base64," \o base64

Returned(output, callsMade, items) ==
  [threw |-> FALSE, message |-> "", output |-> output, calls |-> callsMade, items |-> items]
Thrown(message, callsMade) ==
  [threw |-> TRUE, message |-> message, output |-> Undefined, calls |-> callsMade, items |-> <<>>]
\* HistoryItem with the prompt left empty
HistoryItem_NoPrompt(dataUrl, prompt) == [id |-> 0, type |-> "image", dataUrl |-> dataUrl, prompt |-> Str("")]

\* a HistoryItem (its id, a fresh UUID, is given when it is added)
HistoryItem(dataUrl, prompt) == [id |-> 0, type |-> "image", dataUrl |-> dataUrl, prompt |-> prompt]

\* case NodeType.TEXT_GENERATOR
DispatchTextGenerator(node, ins, api) ==
  LET r == generateText(Get(ins, HandleId(node.id, "input")), api)
  IN Returned(r.result, <<r.call>>, <<>>)

\* DispatchImageEditor without the test for a text prompt
DispatchImageEditor_NoPromptCheck(node, ins, api) ==
  LET textInput == Get(ins, HandleId(node.id, "input-text"))
      r == generateImage(textInput, api)
  IN IF Truthy(r.result) /\ StartsWith(r.result.s, "data:image")
     THEN Returned(Obj(r.result.s, "", TRUE), <<r.call>>, <<HistoryItem(r.result.s, textInput)>>)
     ELSE Thrown(IF Truthy(r.result) THEN r.result.s ELSE "Image generation failed.", <<r.call>>)

\* case NodeType.IMAGE_EDITOR
DispatchImageEditor(node, ins, api) ==
  LET imageInput == Get(ins, HandleId(node.id, "input-image"))
      textInput == Get(ins, HandleId(node.id, "input-text"))
      imageFile == processImageInput(imageInput)
  IN IF ~Truthy(textInput)
     THEN Thrown("A text prompt is required for image generation/editing.", <<>>)
     ELSE IF imageFile.ok
          THEN LET r == editImage(imageFile.data, imageFile.mimeType, textInput, api)
                   dataUrl == DataUrl(imageFile.mimeType, r.result.newBase64Image)
               IN IF r.result.newBase64Image # ""
                  THEN Returned(Obj(dataUrl, r.result.text, r.result.text = ""), <<r.call>>,
                                <<HistoryItem(dataUrl, textInput)>>)
                  ELSE Thrown(IF r.result.text # "" THEN r.result.text
                              ELSE "Image editing failed to produce an image.", <<r.call>>)
          ELSE LET r == generateImage(textInput, api)
               IN IF Truthy(r.result) /\ StartsWith(r.result.s, "data:image")
                  THEN Returned(Obj(r.result.s, "", TRUE), <<r.call>>,
                                <<HistoryItem(r.result.s, textInput)>>)
                  ELSE Thrown(IF Truthy(r.result) THEN r.result.s
                              ELSE "Image generation failed.", <<r.call>>)

\* DispatchPreset without the test that there are images
DispatchPreset_NoImageCheck(node, ins, es, outs, api) ==
  LET imageFiles == ImageFiles(ImageInputsRaw(node, ins, es, outs))
      r == executePreset(imageFiles, node.prompt, api)
      mimeType == IF Len(imageFiles) > 0 THEN imageFiles[1].mimeType ELSE "image/png"
      dataUrl == DataUrl(mimeType, r.result.newBase64Image)
  IN IF r.result.newBase64Image # ""
     THEN Returned(Obj(dataUrl, r.result.text, r.result.text = ""), <<r.call>>,
                   <<HistoryItem(dataUrl, Str(node.prompt))>>)
     ELSE Thrown(IF r.result.text # "" THEN r.result.text
                 ELSE "Preset failed to produce an image.", <<r.call>>)

\* case NodeType.PROMPT_PRESET
DispatchPreset(node, ins, es, outs, api) ==
  LET imageFiles == ImageFiles(ImageInputsRaw(node, ins, es, outs))
  IN IF Len(imageFiles) > 0 /\ node.prompt # ""
     THEN LET r == executePreset(imageFiles, node.prompt, api)
              dataUrl == DataUrl(imageFiles[1].mimeType, r.result.newBase64Image)
          IN IF r.result.newBase64Image # ""
             THEN Returned(Obj(dataUrl, r.result.text, r.result.text = ""), <<r.call>>,
                           <<HistoryItem(dataUrl, Str(node.prompt))>>)
             ELSE Thrown(IF r.result.text # "" THEN r.result.text
                         ELSE "Preset failed to produce an image.", <<r.call>>)
     ELSE Thrown("Missing required inputs for preset", <<>>)

\* case NodeType.VIDEO_GENERATOR
DispatchVideoGenerator(node, ins, ops) ==
  LET imageFile == processImageInput(Get(ins, HandleId(node.id, "input-image")))
      r == generateVideo(imageFile.data, imageFile.mimeType,
                         Get(ins, HandleId(node.id, "input-text")), ops)
  IN Returned(r.result, <<r.call>>, <<>>)

\* the switch on node.type inside the try block
Dispatch(node, ins, es, outs, api, ops) ==
  CASE node.type \in {"TEXT_INPUT", "IMAGE_INPUT"} -> Returned(node.content, <<>>, <<>>)
    [] node.type = "TEXT_GENERATOR" -> DispatchTextGenerator(node, ins, api)
    [] node.type = "IMAGE_EDITOR" -> DispatchImageEditor(node, ins, api)
    [] node.type = "PROMPT_PRESET" -> DispatchPreset(node, ins, es, outs, api)
    [] node.type = "VIDEO_GENERATOR" -> DispatchVideoGenerator(node, ins, ops)
    [] node.type = "OUTPUT_DISPLAY" -> Returned(Get(ins, HandleId(node.id, "input")), <<>>, <<>>)

\* RoutedOutput with the whole output on every port
RoutedOutput_Whole(node, port, output) == output

\* what an output port of the node carries once the node produced output
RoutedOutput(node, port, output) ==
  IF node.type \in {"IMAGE_EDITOR", "PROMPT_PRESET"} /\ output.tag = "object"
  THEN IF port.type = "image" THEN Str(output.image)
       ELSE IF output.textIsNull THEN Null ELSE Str(output.text)
  ELSE output

\* node.data.outputs.forEach(o => { nodeOutputs[o.id] = ... })
SetOutputs(outs, node, values) ==
  LET ids == {node.outputs[i].id : i \in 1..Len(node.outputs)}
      portOf(h) == CHOOSE i \in 1..Len(node.outputs) : node.outputs[i].id = h
  IN [h \in DOMAIN outs \cup ids |->
        IF h \in ids THEN values[portOf(h)] ELSE outs[h]]

\* updateNodeData that makes an entry for a node the map does not hold
updateNodeData_Upsert(ns, nodeId, status, content, errorMessage) ==
  LET held == IF nodeId \in DOMAIN ns THEN ns
              ELSE ns @@ (nodeId :> createNode(nodeId, "OUTPUT_DISPLAY", "none"))
  IN [held EXCEPT ![nodeId] =
        [@ EXCEPT !.status = IF status = "keep" THEN @ ELSE status,
                  !.content = IF content.tag = "keep" THEN @ ELSE content,
                  !.errorMessage = IF errorMessage = "keep" THEN @ ELSE errorMessage]]

\* updateNodeData(nodeId, data): data given as the fields it sets
updateNodeData(ns, nodeId, status, content, errorMessage) ==
  IF nodeId \notin DOMAIN ns THEN ns
  ELSE [ns EXCEPT ![nodeId] =
          [@ EXCEPT !.status = IF status = "keep" THEN @ ELSE status,
                    !.content = IF content.tag = "keep" THEN @ ELSE content,
                    !.errorMessage = IF errorMessage = "keep" THEN @ ELSE errorMessage]]
Keep == [Undefined EXCEPT !.tag = "keep"]

(***************************************************************************)
(* runWorkflow, topological sort (Kahn).                                   *)
(***************************************************************************)
\* adj[id]: the targets of the edges leaving id, in edge order
Adj(nodeIds, es) ==
  [id \in Range(nodeIds) |->
     LET RECURSIVE Targets(_)
         Targets(s) == IF s = <<>> THEN <<>>
                       ELSE IF Head(s).sourceNodeId = id
                            THEN <<Head(s).targetNodeId>> \o Targets(Tail(s))
                            ELSE Targets(Tail(s))
     IN Targets(es)]

\* InDegree with parallel edges counted once
InDegree_DistinctSources(nodeIds, es) ==
  [id \in Range(nodeIds) |->
     Cardinality({es[i].sourceNodeId : i \in {j \in 1..Len(es) : es[j].targetNodeId = id}})]

\* inDegree[id]: the number of edges that enter id
InDegree(nodeIds, es) ==
  [id \in Range(nodeIds) |->
     Cardinality({i \in 1..Len(es) : es[i].targetNodeId = id})]

RECURSIVE Relax_AlwaysEnqueue(_, _, _)
\* Relax without the test for zero
Relax_AlwaysEnqueue(targets, inDeg, queue) ==
  IF targets = <<>> THEN [inDegree |-> inDeg, queue |-> queue]
  ELSE LET v == Head(targets)
       IN IF v \in DOMAIN inDeg /\ inDeg[v] > 0
          THEN Relax_AlwaysEnqueue(Tail(targets), [inDeg EXCEPT ![v] = 0], Append(queue, v))
          ELSE Relax_AlwaysEnqueue(Tail(targets), inDeg, queue)

RECURSIVE Relax(_, _, _)
\* adj[u].forEach(v => { inDegree[v]--; if (inDegree[v] === 0) queue.push(v); })
\* (for a v that is no node, inDegree[v] is NaN and never 0)
Relax(targets, inDeg, queue) ==
  IF targets = <<>> THEN [inDegree |-> inDeg, queue |-> queue]
  ELSE LET v == Head(targets)
       IN IF v \in DOMAIN inDeg
          THEN LET d == inDeg[v] - 1
               IN Relax(Tail(targets), [inDeg EXCEPT ![v] = d],
                        IF d = 0 THEN Append(queue, v) ELSE queue)
          ELSE Relax(Tail(targets), inDeg, queue)

RECURSIVE KahnLoop(_, _, _, _)
\* while (queue.length > 0) { const u = queue.shift(); executionOrder.push(u); ... }
KahnLoop(queue, order, inDeg, adj) ==
  IF queue = <<>> THEN order
  ELSE LET u == Head(queue)
           r == Relax(adj[u], inDeg, Tail(queue))
       IN KahnLoop(r.queue, Append(order, u), r.inDegree, adj)

\* ExecutionOrder with the nodes taken in key order, whatever the edges
ExecutionOrder_KeyOrder(nodeIds, es) == nodeIds

\* the executionOrder runWorkflow computes for the captured nodes and edges
ExecutionOrder(nodeIds, es) ==
  LET inDeg == InDegree(nodeIds, es)
      queue == Filter(nodeIds, {id \in Range(nodeIds) : inDeg[id] = 0})
  IN KahnLoop(queue, <<>>, inDeg, Adj(nodeIds, es))

\* ResetNode that leaves the status as it is
ResetNode_KeepsStatus(n) ==
  [n EXCEPT !.errorMessage = NoError,
            !.content = IF n.type # "TEXT_INPUT" /\ n.type # "IMAGE_INPUT"
                        THEN Null ELSE n.content]

\* ResetNode that clears the content of every node
ResetNode_ClearsAll(n) ==
  [n EXCEPT !.status = "IDLE", !.errorMessage = NoError, !.content = Null]

\* the reset of transient state runWorkflow begins with
ResetNode(n) ==
  [n EXCEPT !.status = "IDLE", !.errorMessage = NoError,
            !.content = IF n.type # "TEXT_INPUT" /\ n.type # "IMAGE_INPUT"
                        THEN Null ELSE n.content]

\* every edge leaves a node of the graph: adj[edge.sourceNodeId] is an array
SourcesExist(ns, es) == \A k \in 1..Len(es) : es[k].sourceNodeId \in DOMAIN ns

\* runWorkflow up to its for loop
BeginRun ==
  /\ runs' = runs + 1
  /\ isProcessing' = TRUE
  /\ nodes' = [id \in DOMAIN nodes |-> ResetNode(nodes[id])]
  /\ capNodes' = nodes'
  /\ capEdges' = edges
  /\ executionOrder' = ExecutionOrder(nodeOrder, edges)
  /\ idx' = 1
  /\ nodeOutputs' = <<>>
  /\ inputs' = <<>>
  /\ calls' = <<>>
  /\ pc' = "loop"
  /\ UNCHANGED <<nodeOrder, edges, history, retry>>
  /\ UNCHANGED <<editorVars, video>>

\* a run of a graph whose edges all leave nodes of it, begun with no run in
\* progress
RunWorkflow ==
  /\ pc = "idle"
  /\ ~isProcessing
  /\ runs < MaxRuns
  /\ SourcesExist(nodes, edges)
  /\ BeginRun

\* runWorkflow when an edge leaves no node of the graph: adj[edge.sourceNodeId]
\* is undefined, its push throws a TypeError outside the try block, and the
\* async function ends there, after setIsProcessing(true) and the reset
ThrowRun ==
  /\ runs' = runs + 1
  /\ isProcessing' = TRUE
  /\ nodes' = [id \in DOMAIN nodes |-> ResetNode(nodes[id])]
  /\ UNCHANGED <<nodeOrder, edges, history, pc, capNodes, capEdges, executionOrder, idx,
                 nodeOutputs, inputs, calls, retry>>
  /\ UNCHANGED <<editorVars, video>>

\* a run of a graph with an edge that leaves no node of it
RunWorkflowThrows ==
  /\ pc = "idle"
  /\ ~isProcessing
  /\ runs < MaxRuns
  /\ ~SourcesExist(nodes, edges)
  /\ ThrowRun

\* the controls that call runWorkflow: the keyboard shortcut and the Run
\* buttons of the editor and of the app mode
RunTriggers == {"shortcut", "runButton", "appModeButton"}

\* RunEnabled with the shortcut left untested
RunEnabled_ShortcutAlways(trigger) == trigger = "shortcut" \/ ~isProcessing

\* the test each control makes: `&& !isProcessing` in handleKeyDown,
\* disabled={isProcessing} on the buttons (React commits a change of
\* isProcessing before the next event is handled)
RunEnabled(trigger) == ~isProcessing

\* a control is used: runWorkflow is called if the control lets it
PressRun(trigger) ==
  /\ RunEnabled(trigger)
  /\ runs < MaxSessionRuns
  /\ IF SourcesExist(nodes, edges) THEN BeginRun ELSE ThrowRun

\* what the initiating call and the status calls of one video generation answer
VideoScripts ==
  {ops \in SeqsUpTo({"throw", "pending", "done", "doneNoUri"}, MaxPolls + 1) :
     /\ Len(ops) > 0
     /\ ops[Len(ops)] # "pending"
     /\ \A k \in 1..(Len(ops) - 1) : ops[k] = "pending"}
NoScript == <<"done">>

\* what the generation service may do for a node, as <<api, ops>>: api is the
\* outcome of the retry-wrapped API call ("throw": it gave up with an error;
\* otherwise what the response holds), ops the script of a video generation
Outcomes(node) ==
  CASE node.type = "TEXT_GENERATOR" -> {"throw", "text"} \X {NoScript}
    [] node.type \in {"IMAGE_EDITOR", "PROMPT_PRESET"} ->
         {"throw", "image+text", "image", "text", "none"} \X {NoScript}
    [] node.type = "VIDEO_GENERATOR" -> {"none"} \X VideoScripts
    [] OTHER -> {<<"none", NoScript>>}

CurrentNodeId == executionOrder[idx]
CurrentNode == capNodes[CurrentNodeId]

\* MutedOutputs with the last input's value passed on
MutedOutputs_LastInput(outs, node, ins) ==
  IF Len(node.inputs) > 0
  THEN LET inputValue == Get(ins, node.inputs[Len(node.inputs)].id)
       IN SetOutputs(outs, node, [i \in 1..Len(node.outputs) |-> inputValue])
  ELSE outs

\* the muted branch: the first input's value goes to every output
MutedOutputs(outs, node, ins) ==
  IF Len(node.inputs) > 0
  THEN LET inputValue == Get(ins, node.inputs[1].id)
       IN SetOutputs(outs, node, [i \in 1..Len(node.outputs) |-> inputValue])
  ELSE outs

\* a loop iteration for a muted node
MutedNode ==
  /\ pc = "loop"
  /\ idx <= Len(executionOrder)
  /\ CurrentNode.isMuted
  /\ LET ins == GatherInputs(CurrentNodeId, capEdges, nodeOutputs)
     IN /\ inputs' = ins
        /\ nodes' = updateNodeData(nodes, CurrentNodeId, "COMPLETED", Keep, "keep")
        /\ nodeOutputs' = MutedOutputs(nodeOutputs, CurrentNode, ins)
  /\ idx' = idx + 1
  /\ UNCHANGED <<nodeOrder, edges, history, isProcessing, pc, capNodes, capEdges,
                 executionOrder, calls, runs, retry>>
  /\ UNCHANGED <<editorVars, video>>

\* a loop iteration for an unmuted node, up to the first await of its dispatch
StartNode ==
  /\ pc = "loop"
  /\ idx <= Len(executionOrder)
  /\ ~CurrentNode.isMuted
  /\ inputs' = GatherInputs(CurrentNodeId, capEdges, nodeOutputs)
  /\ nodes' = updateNodeData(nodes, CurrentNodeId, "PROCESSING", Progress("Starting..."), "keep")
  /\ pc' = "await"
  /\ UNCHANGED <<nodeOrder, edges, history, isProcessing, capNodes, capEdges,
                 executionOrder, idx, nodeOutputs, calls, runs, retry>>
  /\ UNCHANGED <<editorVars, video>>

\* the calls of a dispatch, tagged with the node they were made for
CallsOf(r, nodeId) == [k \in 1..Len(r.calls) |-> [r.calls[k] EXCEPT !.node = nodeId]]

\* NodeSucceeded with the status left as it is
NodeSucceeded_StaysProcessing(r) ==
  /\ nodes' = updateNodeData(nodes, CurrentNodeId, "keep", r.output, "keep")
  /\ nodeOutputs' = SetOutputs(nodeOutputs, CurrentNode,
                       [i \in 1..Len(CurrentNode.outputs) |->
                          RoutedOutput(CurrentNode, CurrentNode.outputs[i], r.output)])
  /\ idx' = idx + 1
  /\ pc' = "loop"
  /\ UNCHANGED isProcessing

\* the try block succeeded: Completed, content and output ports set, next node
NodeSucceeded(r) ==
  /\ nodes' = updateNodeData(nodes, CurrentNodeId, "COMPLETED", r.output, "keep")
  /\ nodeOutputs' = SetOutputs(nodeOutputs, CurrentNode,
                       [i \in 1..Len(CurrentNode.outputs) |->
                          RoutedOutput(CurrentNode, CurrentNode.outputs[i], r.output)])
  /\ idx' = idx + 1
  /\ pc' = "loop"
  /\ UNCHANGED isProcessing

\* NodeFailed without the return: the loop goes on to the next node
NodeFailed_Continue(r) ==
  /\ nodes' = updateNodeData(nodes, CurrentNodeId, "ERROR", Keep, r.message)
  /\ idx' = idx + 1
  /\ pc' = "loop"
  /\ UNCHANGED <<isProcessing, nodeOutputs>>

\* NodeFailed with the nodes executed before put back to Idle
NodeFailed_Rollback(r) ==
  /\ nodes' = [id \in DOMAIN nodes |->
                 IF id = CurrentNodeId
                 THEN [nodes[id] EXCEPT !.status = "ERROR", !.errorMessage = r.message]
                 ELSE ResetNode(nodes[id])]
  /\ isProcessing' = FALSE
  /\ pc' = "idle"
  /\ UNCHANGED <<idx, nodeOutputs>>

\* the catch block: Error and message on the node, the run returns
NodeFailed(r) ==
  /\ nodes' = updateNodeData(nodes, CurrentNodeId, "ERROR", Keep, r.message)
  /\ isProcessing' = FALSE
  /\ pc' = "idle"
  /\ UNCHANGED <<idx, nodeOutputs>>

\* AddHistory with the new items put in place of the old ones
AddHistory_Replace(hist, items) ==
  IF items = <<>> THEN hist
  ELSE [k \in 1..Len(items) |-> [items[k] EXCEPT !.id = Len(hist) + k]]

\* setHistory(prev => [historyItem, ...prev]), the item given a fresh id
AddHistory(hist, items) ==
  [k \in 1..Len(items) |-> [items[k] EXCEPT !.id = Len(hist) + k]] \o hist

\* the rest of the iteration: the dispatch and what follows it
FinishNode ==
  /\ pc = "await"
  /\ \E outcome \in Outcomes(CurrentNode) :
       LET r == Dispatch(CurrentNode, inputs, capEdges, nodeOutputs, outcome[1], outcome[2])
       IN /\ calls' = calls \o CallsOf(r, CurrentNodeId)
          /\ history' = AddHistory(history, r.items)
          /\ IF r.threw THEN NodeFailed(r) ELSE NodeSucceeded(r)
  /\ UNCHANGED <<nodeOrder, edges, capNodes, capEdges, executionOrder, inputs, runs, retry>>
  /\ UNCHANGED <<editorVars, video>>

\* the loop is over: setIsProcessing(false)
FinishRun ==
  /\ pc = "loop"
  /\ idx > Len(executionOrder)
  /\ isProcessing' = FALSE
  /\ pc' = "idle"
  /\ UNCHANGED <<nodes, nodeOrder, edges, history, capNodes, capEdges, executionOrder,
                 idx, nodeOutputs, inputs, calls, runs, retry>>
  /\ UNCHANGED <<editorVars, video>>

(***************************************************************************)
(* EngineSpec: runs of every workflow within the bounds, as loaded from a  *)
(* workflow file (handleFileChange takes the nodes and edges of the file   *)
(* as they are).                                                           *)
(***************************************************************************)
ImageOf(id) == Str(DataUrl("image/png", IF id = 1 THEN "IMG1" ELSE IF id = 2 THEN "IMG2" ELSE "IMG3"))
TextOf(id) == Str(IF id = 1 THEN "a cat" ELSE IF id = 2 THEN "make it blue" ELSE "more text")

\* the nodes a workflow may hold at position id
NodeChoices(id) ==
  LET kinds == {createNode(id, t, "none") : t \in NodeType \ {"PROMPT_PRESET"}}
                 \cup {createNode(id, "PROMPT_PRESET", p) : p \in PresetIds}
      contents(n) == CASE n.type = "TEXT_INPUT" -> {Str(""), TextOf(id)}
                       [] n.type = "IMAGE_INPUT" -> {Null, ImageOf(id)}
                       [] OTHER -> {Null}
  IN {[n EXCEPT !.isMuted = m, !.content = c] :
        <<n, m, c>> \in {x \in kinds \X BOOLEAN \X {Str(""), Null, TextOf(id), ImageOf(id)} :
                           x[3] \in contents(x[1])}}

\* the edges from an output handle to an input handle of a later node
CandidateEdges(ns) ==
  {Edge(0, u, ns[u].outputs[o].id, v, ns[v].inputs[i].id) :
     <<u, o, v, i>> \in {x \in (DOMAIN ns) \X (1..2) \X (DOMAIN ns) \X (1..2) :
                          /\ x[1] < x[3]
                          /\ x[2] <= Len(ns[x[1]].outputs)
                          /\ x[4] <= Len(ns[x[3]].inputs)}}

EngineInit ==
  /\ \E n \in 1..MaxNodes :
       /\ nodeOrder = [i \in 1..n |-> i]
       /\ \E ns \in [1..n -> UNION {NodeChoices(i) : i \in 1..n}] :
            /\ \A i \in 1..n : ns[i].id = i
            /\ nodes = ns
            /\ \E es \in SeqsUpTo(CandidateEdges(ns), MaxEdges) :
                 edges = [k \in 1..Len(es) |-> [es[k] EXCEPT !.id = k]]
  /\ history = <<>>
  /\ isProcessing = FALSE
  /\ pc = "idle"
  /\ capNodes = <<>>
  /\ capEdges = <<>>
  /\ executionOrder = <<>>
  /\ idx = 0
  /\ nodeOutputs = <<>>
  /\ inputs = <<>>
  /\ calls = <<>>
  /\ runs = 0
  /\ retry = NoRetry
  /\ EditorInit
  /\ video = NoVideo

EngineNext ==
  \/ RunWorkflow
  \/ MutedNode
  \/ StartNode
  \/ FinishNode
  \/ FinishRun

EngineSpec == EngineInit /\ [][EngineNext]_vars

(***************************************************************************)
(* LoadedSpec: runs of a workflow loaded from a file. handleFileChange     *)
(* takes the nodes, the edges and the history of the file as they are: the *)
(* nodes carry the status, content and errorMessage an earlier run left,   *)
(* and an edge may name a source node the file does not hold.              *)
(***************************************************************************)
\* what an earlier run left on a node, as <<status, content, errorMessage>>
SavedStates(n) ==
  CASE n.type = "TEXT_INPUT" ->
         {"IDLE", "COMPLETED"} \X {Str(""), TextOf(n.id)} \X {NoError}
    [] n.type = "IMAGE_INPUT" ->
         {"IDLE", "COMPLETED"} \X {Null, ImageOf(n.id)} \X {NoError}
    [] n.type \in {"IMAGE_EDITOR", "PROMPT_PRESET"} ->
         {<<"IDLE", Null, NoError>>,
          <<"COMPLETED", Obj(ImageOf(n.id).s, "", TRUE), NoError>>,
          <<"ERROR", Progress("Starting..."), "an earlier failure">>}
    [] OTHER ->
         {<<"IDLE", Null, NoError>>,
          <<"COMPLETED", Str("an earlier result"), NoError>>,
          <<"ERROR", Progress("Starting..."), "an earlier failure">>}

\* the nodes a loaded workflow may hold at position id
LoadedNodeChoices(id) ==
  LET kinds == {createNode(id, t, "none") : t \in NodeType \ {"PROMPT_PRESET"}}
                 \cup {createNode(id, "PROMPT_PRESET", p) : p \in PresetIds}
  IN UNION {{[n EXCEPT !.isMuted = m, !.status = saved[1], !.content = saved[2],
                       !.errorMessage = saved[3]] :
               <<m, saved>> \in BOOLEAN \X SavedStates(n)} : n \in kinds}

\* a node id the file's nodes do not include
MissingNodeId == 0

\* the edges of a loaded workflow: from an output handle to an input handle
\* of a later node, or from a handle of the missing node to an input handle
LoadedEdges(ns) ==
  CandidateEdges(ns)
    \cup {Edge(0, MissingNodeId, HandleId(MissingNodeId, "output"), v, ns[v].inputs[i].id) :
            <<v, i>> \in {x \in (DOMAIN ns) \X (1..2) : x[2] <= Len(ns[x[1]].inputs)}}

\* the HistoryItem the file holds
SavedItem == [HistoryItem(ImageOf(3).s, Str("an earlier prompt")) EXCEPT !.id = 1]

LoadedInit ==
  /\ \E n \in 1..MaxLoadedNodes :
       /\ nodeOrder = [i \in 1..n |-> i]
       /\ \E ns \in [1..n -> UNION {LoadedNodeChoices(i) : i \in 1..n}] :
            /\ \A i \in 1..n : ns[i].id = i
            /\ nodes = ns
            /\ \E es \in SeqsUpTo(LoadedEdges(ns), MaxLoadedEdges) :
                 edges = [k \in 1..Len(es) |-> [es[k] EXCEPT !.id = k]]
  /\ history = <<SavedItem>>
  /\ isProcessing = FALSE
  /\ pc = "idle"
  /\ capNodes = <<>>
  /\ capEdges = <<>>
  /\ executionOrder = <<>>
  /\ idx = 0
  /\ nodeOutputs = <<>>
  /\ inputs = <<>>
  /\ calls = <<>>
  /\ runs = 0
  /\ retry = NoRetry
  /\ EditorInit
  /\ video = NoVideo

LoadedNext ==
  \/ RunWorkflow
  \/ RunWorkflowThrows
  \/ MutedNode
  \/ StartNode
  \/ FinishNode
  \/ FinishRun

LoadedSpec == LoadedInit /\ [][LoadedNext]_vars

(***************************************************************************)
(* LiveSpec: runs of a loaded workflow of fresh nodes, to their end: the   *)
(* awaited calls return and the event loop resumes the run.                *)
(***************************************************************************)
\* the node kinds of these workflows: the inputs, the display and the kinds
\* whose dispatch makes one call to the generation service
LiveKinds == {"TEXT_INPUT", "IMAGE_INPUT", "TEXT_GENERATOR", "IMAGE_EDITOR", "OUTPUT_DISPLAY"}

LiveInit ==
  /\ \E n \in 0..MaxLiveNodes :
       /\ nodeOrder = [i \in 1..n |-> i]
       /\ \E ns \in [1..n -> UNION {NodeChoices(i) : i \in 1..n}] :
            /\ \A i \in 1..n : ns[i].id = i /\ ns[i].type \in LiveKinds
            /\ nodes = ns
            /\ \E es \in SeqsUpTo(LoadedEdges(ns), MaxLiveEdges) :
                 edges = [k \in 1..Len(es) |-> [es[k] EXCEPT !.id = k]]
  /\ history = <<>>
  /\ isProcessing = FALSE
  /\ pc = "idle"
  /\ capNodes = <<>>
  /\ capEdges = <<>>
  /\ executionOrder = <<>>
  /\ idx = 0
  /\ nodeOutputs = <<>>
  /\ inputs = <<>>
  /\ calls = <<>>
  /\ runs = 0
  /\ retry = NoRetry
  /\ EditorInit
  /\ video = NoVideo

LiveSpec == LiveInit /\ [][LoadedNext]_vars /\ WF_vars(LoadedNext)

(***************************************************************************)
(* RetrySpec: one call of a wrapped function, for every script of outcomes *)
(* of the API call underneath.                                             *)
(***************************************************************************)
RetryInit ==
  /\ \E script \in [1..MaxAttemptsScripted -> AttemptOutcomes] :
       retry = [NoRetry EXCEPT !.pc = "call", !.script = script]
  /\ nodes = <<>>
  /\ nodeOrder = <<>>
  /\ edges = <<>>
  /\ history = <<>>
  /\ isProcessing = FALSE
  /\ pc = "idle"
  /\ capNodes = <<>>
  /\ capEdges = <<>>
  /\ executionOrder = <<>>
  /\ idx = 0
  /\ nodeOutputs = <<>>
  /\ inputs = <<>>
  /\ calls = <<>>
  /\ runs = 0
  /\ EditorInit
  /\ video = NoVideo

RetryNext ==
  \/ RetryAttempt
  \/ RetryContinue

RetrySpec == RetryInit /\ [][RetryNext]_vars

(***************************************************************************)
(* SchedSpec: the scheduler on every graph within the bounds. The nodes    *)
(* are text generators (one input, one output handle each), loaded from a  *)
(* workflow file with any edges between them.                              *)
(***************************************************************************)
SchedEdge(u, v) == Edge(<<u, v>>, u, HandleId(u, "output"), v, HandleId(v, "input"))

SchedInit ==
  /\ \E n \in 0..MaxSchedNodes :
       /\ nodeOrder = [i \in 1..n |-> i]
       /\ nodes = [i \in 1..n |-> createNode(i, "TEXT_GENERATOR", "none")]
       /\ \E pairs \in SeqsUpTo((1..n) \X (1..n), MaxSchedEdges) :
            edges = [k \in 1..Len(pairs) |->
                       [SchedEdge(pairs[k][1], pairs[k][2]) EXCEPT !.id = k]]
  /\ history = <<>>
  /\ isProcessing = FALSE
  /\ pc = "idle"
  /\ capNodes = <<>>
  /\ capEdges = <<>>
  /\ executionOrder = <<>>
  /\ idx = 0
  /\ nodeOutputs = <<>>
  /\ inputs = <<>>
  /\ calls = <<>>
  /\ runs = 0
  /\ retry = NoRetry
  /\ EditorInit
  /\ video = NoVideo

SchedNext == RunWorkflow

SchedSpec == SchedInit /\ [][SchedNext]_vars

(***************************************************************************)
(* VideoSpec: one call of generateVideo, with or without an image and a    *)
(* prompt. VideoFairSpec: the awaited calls and sleeps come to an end.     *)
(***************************************************************************)
VideoInit ==
  /\ \E hasImage \in BOOLEAN, prompt \in {"", "a cat on a skateboard"} :
       video = [NoVideo EXCEPT !.pc = "begin", !.hasImage = hasImage, !.prompt = prompt]
  /\ nodes = <<>>
  /\ nodeOrder = <<>>
  /\ edges = <<>>
  /\ history = <<>>
  /\ isProcessing = FALSE
  /\ pc = "idle"
  /\ capNodes = <<>>
  /\ capEdges = <<>>
  /\ executionOrder = <<>>
  /\ idx = 0
  /\ nodeOutputs = <<>>
  /\ inputs = <<>>
  /\ calls = <<>>
  /\ runs = 0
  /\ retry = NoRetry
  /\ EditorInit

VideoNext ==
  \/ VideoBegin
  \/ VideoSleep
  \/ VideoStatus
  \/ VideoFetch

VideoSpec == VideoInit /\ [][VideoNext]_vars

VideoFairSpec == VideoInit /\ [][VideoNext]_vars /\ WF_vars(VideoNext)

(***************************************************************************)
(* OrderSpec: runs of loaded workflows of text generators, muted or not,   *)
(* with edges in any direction, edges that leave or enter a node the file  *)
(* does not hold included.                                                 *)
(***************************************************************************)
OrderInit ==
  /\ \E n \in 1..MaxOrderNodes :
       /\ nodeOrder = [i \in 1..n |-> i]
       /\ \E muted \in [1..n -> BOOLEAN] :
            nodes = [i \in 1..n |->
                       [createNode(i, "TEXT_GENERATOR", "none") EXCEPT !.isMuted = muted[i]]]
       /\ \E pairs \in SeqsUpTo((({MissingNodeId} \cup (1..n)) \X ({MissingNodeId} \cup (1..n)))
                                  \ {<<MissingNodeId, MissingNodeId>>}, MaxOrderEdges) :
            edges = [k \in 1..Len(pairs) |->
                       [SchedEdge(pairs[k][1], pairs[k][2]) EXCEPT !.id = k]]
  /\ history = <<>>
  /\ isProcessing = FALSE
  /\ pc = "idle"
  /\ capNodes = <<>>
  /\ capEdges = <<>>
  /\ executionOrder = <<>>
  /\ idx = 0
  /\ nodeOutputs = <<>>
  /\ inputs = <<>>
  /\ calls = <<>>
  /\ runs = 0
  /\ retry = NoRetry
  /\ EditorInit
  /\ video = NoVideo

OrderSpec == OrderInit /\ [][LoadedNext]_vars

(***************************************************************************)
(* The graph editor: addNode, handleMouseDownNode, handleMouseDownHandle,  *)
(* handleMouseUp (the end of a connection drag) and handleKeyDown (delete, *)
(* copy, paste). Node ids are fresh UUIDs, here the next unused number; an *)
(* edge, whose id is a fresh UUID too, is named by its place in            *)
(* Object.values(edges).                                                   *)
(***************************************************************************)
engineVars == <<history, isProcessing, pc, capNodes, capEdges, executionOrder, idx,
                nodeOutputs, inputs, calls, runs, retry, video>>

\* one more operation of the session, a release of a drag or another one
Released(drop) == editorOps < MaxEditorOps /\ editorOps' = editorOps + 1 /\ lastDrop' = drop
Operation == Released(lastDrop)

\* the node kinds the toolbar offers, as <<type, presetId>>
EditorKinds ==
  {<<"TEXT_INPUT", "none">>, <<"IMAGE_EDITOR", "none">>, <<"OUTPUT_DISPLAY", "none">>,
   <<"PROMPT_PRESET", "multi">>, <<"PROMPT_PRESET", "mixed">>}

Renumber(es) == [k \in 1..Len(es) |-> [es[k] EXCEPT !.id = k]]

\* addNode(type, presetId)
addNode(type, presetId) ==
  /\ uuids < MaxAdded
  /\ uuids' = uuids + 1
  /\ nodes' = nodes @@ (uuids' :> createNode(uuids', type, presetId))
  /\ nodeOrder' = Append(nodeOrder, uuids')
  /\ UNCHANGED <<edges, connectingEdge, selectedNodeIds, clipboard>>
  /\ UNCHANGED engineVars
  /\ Operation

\* handleMouseDownNode(e, nodeId): the selection it makes
handleMouseDownNode(nodeId, shiftKey) ==
  /\ ~connectingEdge.active
  /\ nodeId \in DOMAIN nodes
  /\ selectedNodeIds' =
       IF shiftKey
       THEN IF nodeId \in selectedNodeIds THEN selectedNodeIds \ {nodeId}
            ELSE selectedNodeIds \cup {nodeId}
       ELSE IF nodeId \in selectedNodeIds THEN selectedNodeIds ELSE {nodeId}
  /\ UNCHANGED <<nodes, nodeOrder, edges, connectingEdge, clipboard, uuids>>
  /\ UNCHANGED engineVars
  /\ Operation

\* targetNode.type === PROMPT_PRESET && handleId.endsWith('-input-multi-image')
isMultiImageHandle(ns, nodeId, handleId) ==
  /\ nodeId \in DOMAIN ns
  /\ ns[nodeId].type = "PROMPT_PRESET"
  /\ handleId[2] = "input-multi-image"

\* Object.values(edges).some(edge => edge.targetNodeId === nodeId && edge.targetHandleId === handleId)
isAlreadyConnected(es, nodeId, handleId) ==
  \E k \in 1..Len(es) : es[k].targetNodeId = nodeId /\ es[k].targetHandleId = handleId

\* handleMouseDownHandle(e, nodeId, handleId, 'output'): a connection drag begins
handleMouseDownOutput(nodeId, o) ==
  /\ ~connectingEdge.active
  /\ nodeId \in DOMAIN nodes
  /\ o \in 1..Len(nodes[nodeId].outputs)
  /\ connectingEdge' = [active |-> TRUE, sourceNodeId |-> nodeId,
                        sourceHandleId |-> nodes[nodeId].outputs[o].id]
  /\ UNCHANGED <<nodes, nodeOrder, edges, selectedNodeIds, clipboard, uuids>>
  /\ UNCHANGED engineVars
  /\ Operation

\* handleMouseDownHandle(e, nodeId, handleId, 'input'): the edge found at the
\* handle is unplugged and dragged on from its source
handleMouseDownInput(nodeId, i) ==
  /\ ~connectingEdge.active
  /\ nodeId \in DOMAIN nodes
  /\ i \in 1..Len(nodes[nodeId].inputs)
  /\ LET handleId == nodes[nodeId].inputs[i].id
         found == {k \in 1..Len(edges) :
                     edges[k].targetNodeId = nodeId /\ edges[k].targetHandleId = handleId}
     IN /\ ~isMultiImageHandle(nodes, nodeId, handleId)
        /\ found # {}
        /\ LET k == CHOOSE x \in found : \A y \in found : x <= y
           IN /\ edges' = Renumber([j \in 1..(Len(edges) - 1) |->
                                      IF j < k THEN edges[j] ELSE edges[j + 1]])
              /\ connectingEdge' = [active |-> TRUE, sourceNodeId |-> edges[k].sourceNodeId,
                                    sourceHandleId |-> edges[k].sourceHandleId]
  /\ UNCHANGED <<nodes, nodeOrder, selectedNodeIds, clipboard, uuids>>
  /\ UNCHANGED engineVars
  /\ Operation

\* isTypeCompatible
isTypeCompatible(sourceType, inputType) ==
  sourceType = inputType \/ inputType = "any" \/ sourceType = "any"

\* the type of the output handle a drag began at ("" for undefined)
SourceType(ns, conn) ==
  IF conn.sourceNodeId \notin DOMAIN ns THEN ""
  ELSE LET outs == ns[conn.sourceNodeId].outputs
           at == {o \in 1..Len(outs) : outs[o].id = conn.sourceHandleId}
       IN IF at = {} THEN "" ELSE outs[CHOOSE o \in at : TRUE].type

RECURSIVE FindInput(_, _, _, _, _)
\* for (const input of targetNode.data.inputs) { ... break; }: the index of
\* the input found, 0 when the loop ends without one
FindInput(ns, es, sourceType, targetNodeId, i) ==
  IF i > Len(ns[targetNodeId].inputs) THEN 0
  ELSE LET input == ns[targetNodeId].inputs[i]
       IN IF ~isTypeCompatible(sourceType, input.type)
          THEN FindInput(ns, es, sourceType, targetNodeId, i + 1)
          ELSE IF ~isAlreadyConnected(es, targetNodeId, input.id)
                  \/ isMultiImageHandle(ns, targetNodeId, input.id)
               THEN i
               ELSE FindInput(ns, es, sourceType, targetNodeId, i + 1)

\* FinalCheck without the test that the handle is free
FinalCheck_NoFreeTest(ns, es, conn, targetNodeId, targetHandleId) ==
  IF conn.sourceNodeId # targetNodeId
  THEN Append(es, Edge(0, conn.sourceNodeId, conn.sourceHandleId, targetNodeId, targetHandleId))
  ELSE es

\* "Final check and edge creation" of handleMouseUp
FinalCheck(ns, es, conn, targetNodeId, targetHandleId) ==
  IF /\ conn.sourceNodeId # targetNodeId
     /\ \/ ~isAlreadyConnected(es, targetNodeId, targetHandleId)
        \/ isMultiImageHandle(ns, targetNodeId, targetHandleId)
  THEN Append(es, Edge(0, conn.sourceNodeId, conn.sourceHandleId, targetNodeId, targetHandleId))
  ELSE es

\* handleMouseUp, case 1: the drag is released on an input handle
DropOnHandle(targetNodeId, i) ==
  /\ connectingEdge.active
  /\ Len(edges) < MaxEditorEdges
  /\ targetNodeId \in DOMAIN nodes
  /\ i \in 1..Len(nodes[targetNodeId].inputs)
  /\ edges' = Renumber(FinalCheck(nodes, edges, connectingEdge, targetNodeId,
                                  nodes[targetNodeId].inputs[i].id))
  /\ connectingEdge' = NoConnection
  /\ UNCHANGED <<nodes, nodeOrder, selectedNodeIds, clipboard, uuids>>
  /\ UNCHANGED engineVars
  /\ Released([on |-> "handle", target |-> targetNodeId, created |-> Len(edges') > Len(edges)])

\* AutoRoute with the last suitable input taken
AutoRoute_LastMatch(ns, es, conn, potentialTargetNodeId) ==
  LET sourceType == SourceType(ns, conn)
      ok == {i \in 1..Len(ns[potentialTargetNodeId].inputs) :
               /\ isTypeCompatible(sourceType, ns[potentialTargetNodeId].inputs[i].type)
               /\ \/ ~isAlreadyConnected(es, potentialTargetNodeId, ns[potentialTargetNodeId].inputs[i].id)
                  \/ isMultiImageHandle(ns, potentialTargetNodeId, ns[potentialTargetNodeId].inputs[i].id)}
  IN IF sourceType # "" /\ conn.sourceNodeId # potentialTargetNodeId /\ ok # {}
     THEN CHOOSE i \in ok : \A j \in ok : j <= i
     ELSE 0

\* handleMouseUp, case 2: the input of the node the drag is released on that
\* the connection is routed to (its index, 0 for none)
AutoRoute(ns, es, conn, potentialTargetNodeId) ==
  LET sourceType == SourceType(ns, conn)
  IN IF sourceType # "" /\ conn.sourceNodeId # potentialTargetNodeId
     THEN FindInput(ns, es, sourceType, potentialTargetNodeId, 1)
     ELSE 0

\* handleMouseUp, case 2: the drag is released on a node, off its input handles
DropOnNode(potentialTargetNodeId) ==
  /\ connectingEdge.active
  /\ Len(edges) < MaxEditorEdges
  /\ potentialTargetNodeId \in DOMAIN nodes
  /\ LET i == AutoRoute(nodes, edges, connectingEdge, potentialTargetNodeId)
     IN edges' = IF i = 0 THEN edges
                 ELSE Renumber(FinalCheck(nodes, edges, connectingEdge, potentialTargetNodeId,
                                          nodes[potentialTargetNodeId].inputs[i].id))
  /\ connectingEdge' = NoConnection
  /\ UNCHANGED <<nodes, nodeOrder, selectedNodeIds, clipboard, uuids>>
  /\ UNCHANGED engineVars
  /\ Released([on |-> "node", target |-> potentialTargetNodeId, created |-> Len(edges') > Len(edges)])

\* handleMouseUp: the drag is released on the canvas
DropOnCanvas ==
  /\ connectingEdge.active
  /\ connectingEdge' = NoConnection
  /\ UNCHANGED <<nodes, nodeOrder, edges, selectedNodeIds, clipboard, uuids>>
  /\ UNCHANGED engineVars
  /\ Released([on |-> "canvas", target |-> 0, created |-> FALSE])

\* handleKeyDown, the delete key with nodes selected
DeleteSelection ==
  /\ selectedNodeIds # {}
  /\ nodes' = [id \in DOMAIN nodes \ selectedNodeIds |-> nodes[id]]
  /\ nodeOrder' = Filter(nodeOrder, DOMAIN nodes \ selectedNodeIds)
  /\ edges' = Renumber(Filter(edges, {e \in Range(edges) :
                                        /\ e.sourceNodeId \notin selectedNodeIds
                                        /\ e.targetNodeId \notin selectedNodeIds}))
  /\ selectedNodeIds' = {}
  /\ UNCHANGED <<connectingEdge, clipboard, uuids>>
  /\ UNCHANGED engineVars
  /\ Operation

\* handleKeyDown, copy
Copy ==
  /\ clipboard' = [set |-> TRUE,
                   nodes |-> [k \in 1..Len(Filter(nodeOrder, selectedNodeIds)) |->
                                nodes[Filter(nodeOrder, selectedNodeIds)[k]]],
                   edges |-> Renumber(Filter(edges, {e \in Range(edges) :
                                                       /\ e.sourceNodeId \in selectedNodeIds
                                                       /\ e.targetNodeId \in selectedNodeIds}))]
  /\ UNCHANGED <<nodes, nodeOrder, edges, connectingEdge, selectedNodeIds, uuids>>
  /\ UNCHANGED engineVars
  /\ Operation

\* id.replace(oldId, newId) on a handle id
ReplaceId(handleId, oldId, newId) ==
  IF handleId[1] = oldId THEN <<newId, handleId[2]>> ELSE handleId

\* handleKeyDown, paste: the k-th node of the clipboard gets the k-th new id
Paste ==
  /\ clipboard.set
  /\ uuids + Len(clipboard.nodes) <= MaxNodeIds
  /\ Len(edges) + Len(clipboard.edges) <= MaxEditorEdges
  /\ LET n == Len(clipboard.nodes)
         newId(k) == uuids + k
         place(oldId) == CHOOSE k \in 1..n : clipboard.nodes[k].id = oldId
         idMap(oldId) == newId(place(oldId))
         newNode(k) ==
           LET node == clipboard.nodes[k]
           IN [node EXCEPT
                 !.id = newId(k),
                 !.inputs = [j \in 1..Len(node.inputs) |->
                               [node.inputs[j] EXCEPT !.id = ReplaceId(@, node.id, newId(k))]],
                 !.outputs = [j \in 1..Len(node.outputs) |->
                                [node.outputs[j] EXCEPT !.id = ReplaceId(@, node.id, newId(k))]]]
         newEdge(edge) ==
           Edge(0, idMap(edge.sourceNodeId), ReplaceId(edge.sourceHandleId, edge.sourceNodeId, idMap(edge.sourceNodeId)),
                idMap(edge.targetNodeId), ReplaceId(edge.targetHandleId, edge.targetNodeId, idMap(edge.targetNodeId)))
     IN /\ nodes' = [id \in DOMAIN nodes \cup {newId(k) : k \in 1..n} |->
                       IF id > uuids THEN newNode(id - uuids) ELSE nodes[id]]
        /\ nodeOrder' = nodeOrder \o [k \in 1..n |-> newId(k)]
        /\ edges' = Renumber(edges \o [k \in 1..Len(clipboard.edges) |-> newEdge(clipboard.edges[k])])
        /\ selectedNodeIds' = {newId(k) : k \in 1..n}
        /\ uuids' = uuids + n
  /\ UNCHANGED <<connectingEdge, clipboard>>
  /\ UNCHANGED engineVars
  /\ Operation

(***************************************************************************)
(* EditorSpec: the editor at work on a graph that starts empty.            *)
(***************************************************************************)
EditorSpecInit ==
  /\ nodes = <<>>
  /\ nodeOrder = <<>>
  /\ edges = <<>>
  /\ history = <<>>
  /\ isProcessing = FALSE
  /\ pc = "idle"
  /\ capNodes = <<>>
  /\ capEdges = <<>>
  /\ executionOrder = <<>>
  /\ idx = 0
  /\ nodeOutputs = <<>>
  /\ inputs = <<>>
  /\ calls = <<>>
  /\ runs = 0
  /\ retry = NoRetry
  /\ EditorInit
  /\ video = NoVideo

EditorNext ==
  \/ \E kind \in EditorKinds : addNode(kind[1], kind[2])
  \/ \E nodeId \in DOMAIN nodes, shiftKey \in BOOLEAN : handleMouseDownNode(nodeId, shiftKey)
  \/ \E nodeId \in DOMAIN nodes, o \in 1..2 : handleMouseDownOutput(nodeId, o)
  \/ \E nodeId \in DOMAIN nodes, i \in 1..3 : handleMouseDownInput(nodeId, i)
  \/ \E nodeId \in DOMAIN nodes, i \in 1..3 : DropOnHandle(nodeId, i)
  \/ \E nodeId \in DOMAIN nodes : DropOnNode(nodeId)
  \/ DropOnCanvas
  \/ DeleteSelection
  \/ Copy
  \/ Paste

EditorSpec == EditorSpecInit /\ [][EditorNext]_vars

(***************************************************************************)
(* SessionSpec: a session on a loaded workflow of text inputs and text     *)
(* generators: the run controls are used, runs go on, and in between, also *)
(* while a run awaits a call, nodes and edges are added and removed in the *)
(* editor.                                                                 *)
(***************************************************************************)
SessionNodeChoices(id) ==
  {[createNode(id, "TEXT_INPUT", "none") EXCEPT !.content = TextOf(id)]}
    \cup {[createNode(id, "TEXT_GENERATOR", "none") EXCEPT !.isMuted = m] : m \in BOOLEAN}

\* the node kinds added in a session, as <<type, presetId>>
SessionKinds == {<<"TEXT_INPUT", "none">>, <<"TEXT_GENERATOR", "none">>}

\* the ids of the loaded nodes count as given, and the operations that made
\* the workflow as done
SessionInit ==
  /\ \E n \in 1..MaxSessionNodes :
       /\ nodeOrder = [i \in 1..n |-> i]
       /\ \E ns \in [1..n -> UNION {SessionNodeChoices(i) : i \in 1..n}] :
            /\ \A i \in 1..n : ns[i].id = i
            /\ nodes = ns
            /\ \E es \in SeqsUpTo(CandidateEdges(ns), MaxSessionEdges) :
                 edges = [k \in 1..Len(es) |-> [es[k] EXCEPT !.id = k]]
       /\ uuids = n
  /\ history = <<>>
  /\ isProcessing = FALSE
  /\ pc = "idle"
  /\ capNodes = <<>>
  /\ capEdges = <<>>
  /\ executionOrder = <<>>
  /\ idx = 0
  /\ nodeOutputs = <<>>
  /\ inputs = <<>>
  /\ calls = <<>>
  /\ runs = 0
  /\ retry = NoRetry
  /\ video = NoVideo
  /\ connectingEdge = NoConnection
  /\ selectedNodeIds = {}
  /\ clipboard = NoClipboard
  /\ editorOps = MaxEditorOps - MaxSessionOps
  /\ lastDrop = NoDrop

SessionNext ==
  \/ \E trigger \in RunTriggers : PressRun(trigger)
  \/ MutedNode
  \/ StartNode
  \/ FinishNode
  \/ FinishRun
  \/ \E kind \in SessionKinds : addNode(kind[1], kind[2])
  \/ \E nodeId \in DOMAIN nodes : handleMouseDownNode(nodeId, FALSE)
  \/ \E nodeId \in DOMAIN nodes : handleMouseDownOutput(nodeId, 1)
  \/ \E nodeId \in DOMAIN nodes : handleMouseDownInput(nodeId, 1)
  \/ \E nodeId \in DOMAIN nodes : DropOnNode(nodeId)
  \/ DeleteSelection

SessionSpec == SessionInit /\ [][SessionNext]_vars

(***************************************************************************)
(* Graph notions the scheduling claims are stated with.                    *)
(***************************************************************************)
\* u -> v is an edge
EdgeRel(es) == {<<es[i].sourceNodeId, es[i].targetNodeId>> : i \in 1..Len(es)}

Succ(S, rel) == {p[2] : p \in {q \in rel : q[1] \in S}}

RECURSIVE Closure(_, _)
Closure(S, rel) ==
  LET T == S \cup Succ(S, rel) IN IF T = S THEN S ELSE Closure(T, rel)

\* the nodes reachable from u by one or more edges
Reach(u, rel) == Closure(Succ({u}, rel), rel)
OnCycle(u, rel) == u \in Reach(u, rel)
Acyclic(ids, rel) == \A u \in ids : ~OnCycle(u, rel)
\* u lies on a cycle or is reachable from a node that does
BehindCycle(u, ids, rel) ==
  \E c \in ids : OnCycle(c, rel) /\ (u = c \/ u \in Reach(c, rel))

\* seq holds every element of S exactly once and nothing else
IsOrderingOf(seq, S) ==
  /\ Range(seq) = S
  /\ \A i, j \in 1..Len(seq) : seq[i] = seq[j] => i = j

\* u stands before v in seq
Before(seq, u, v) ==
  \E i, j \in 1..Len(seq) : i < j /\ seq[i] = u /\ seq[j] = v

Scheduled == runs > 0

\* C1: on an acyclic graph (parallel edges allowed, all endpoints nodes) the
\* execution order holds every node exactly once, and for every edge u -> v
\* the node u stands before v.
C1_TopologicalOrder ==
  (Scheduled /\ Acyclic(Range(nodeOrder), EdgeRel(capEdges)))
    => /\ IsOrderingOf(executionOrder, Range(nodeOrder))
       /\ \A p \in EdgeRel(capEdges) : Before(executionOrder, p[1], p[2])

\* a scheduled acyclic graph with a parallel edge and a node with two
\* predecessors
C1_Witness ==
  /\ Scheduled
  /\ Acyclic(Range(nodeOrder), EdgeRel(capEdges))
  /\ Len(nodeOrder) = 3
  /\ \E i, j \in 1..Len(capEdges) :
       /\ i # j
       /\ capEdges[i].sourceNodeId = capEdges[j].sourceNodeId
       /\ capEdges[i].targetNodeId = capEdges[j].targetNodeId
  /\ \E i, j \in 1..Len(capEdges) :
       /\ capEdges[i].sourceNodeId # capEdges[j].sourceNodeId
       /\ capEdges[i].targetNodeId = capEdges[j].targetNodeId
  /\ executionOrder # <<1, 2, 3>>

\* C2 as stated: with a cycle in the graph, no node on a cycle is in the
\* execution order and every node that is on no cycle is in it, after all of
\* its predecessors.
C2_AsStated ==
  (Scheduled /\ ~Acyclic(Range(nodeOrder), EdgeRel(capEdges)))
    => \A u \in Range(nodeOrder) :
         IF OnCycle(u, EdgeRel(capEdges))
         THEN u \notin Range(executionOrder)
         ELSE /\ u \in Range(executionOrder)
              /\ \A p \in EdgeRel(capEdges) :
                   p[2] = u => Before(executionOrder, p[1], u)

\* C2 (amended): with a cycle in the graph, no node that is on a cycle or
\* reachable from one is in the execution order, and every other node is in
\* it exactly once, after all of its predecessors.
C2_CycleExclusion ==
  (Scheduled /\ ~Acyclic(Range(nodeOrder), EdgeRel(capEdges)))
    => /\ \A i, j \in 1..Len(executionOrder) :
            executionOrder[i] = executionOrder[j] => i = j
       /\ \A u \in Range(nodeOrder) :
            IF BehindCycle(u, Range(nodeOrder), EdgeRel(capEdges))
            THEN u \notin Range(executionOrder)
            ELSE /\ u \in Range(executionOrder)
                 /\ \A p \in EdgeRel(capEdges) :
                      p[2] = u => Before(executionOrder, p[1], u)

\* a scheduled graph with a two-node cycle, a node behind the cycle and
\* nothing else: the order is empty
C2_Witness ==
  /\ Scheduled
  /\ Len(nodeOrder) = 3
  /\ \E a, b, c \in Range(nodeOrder) :
       /\ a # b /\ c \notin {a, b}
       /\ {<<a, b>>, <<b, a>>, <<b, c>>} \subseteq EdgeRel(capEdges)
       /\ ~OnCycle(c, EdgeRel(capEdges))
  /\ executionOrder = <<>>

(***************************************************************************)
(* Notions the run claims are stated with.                                 *)
(***************************************************************************)
Max(S) == CHOOSE x \in S : \A y \in S : y <= x
\* the m-th smallest element of a set of numbers
Nth(S, m) == CHOOSE x \in S : Cardinality({y \in S : y < x}) = m - 1

\* the captured edges that end at the handle, by position (creation order)
EdgesInto(nodeId, handle) ==
  {k \in 1..Len(capEdges) :
     capEdges[k].targetNodeId = nodeId /\ capEdges[k].targetHandleId = handle}
\* the value the source of an edge produced
EdgeValue(k) == Get(nodeOutputs, capEdges[k].sourceHandleId)
\* the value a single-valued input port receives: that of its newest edge
PortValue(nodeId, handle) ==
  IF EdgesInto(nodeId, handle) = {} THEN Undefined
  ELSE EdgeValue(Max(EdgesInto(nodeId, handle)))

IsImageValue(v) == v.tag = "string" /\ StartsWith(v.s, "data:image")
LaterInOrder(i) == {executionOrder[j] : j \in (i + 1)..Len(executionOrder)}

\* C3: once a node of the execution order is in Error status the run is
\* over, and no node placed after it in the order is Processing or Completed.
C3_HaltOnError ==
  \A i \in 1..Len(executionOrder) :
    nodes[executionOrder[i]].status = "ERROR"
      => /\ pc = "idle"
         /\ ~isProcessing
         /\ \A id \in LaterInOrder(i) : nodes[id].status \notin {"PROCESSING", "COMPLETED"}

\* a run that failed at a node with a completed node before it and a node
\* fed by it after it
C3_Witness ==
  \E i \in 1..Len(executionOrder) :
    /\ nodes[executionOrder[i]].status = "ERROR"
    /\ i > 1
    /\ nodes[executionOrder[i - 1]].status = "COMPLETED"
    /\ \E k \in 1..Len(capEdges) :
         /\ capEdges[k].sourceNodeId = executionOrder[i]
         /\ capEdges[k].targetNodeId \in LaterInOrder(i)

\* C4: a muted node that the run has passed is Completed, no call to the
\* generation service was made for it, and every one of its output ports
\* carries the value gathered for its first input port (no value if the node
\* has no input port).
C4_MutedPassthrough ==
  \A i \in 1..Len(executionOrder) :
    LET n == capNodes[executionOrder[i]]
        firstInput == IF Len(n.inputs) = 0 THEN Undefined
                      ELSE PortValue(n.id, n.inputs[1].id)
    IN (i < idx /\ n.isMuted)
         => /\ nodes[n.id].status = "COMPLETED"
            /\ \A k \in 1..Len(calls) : calls[k].node # n.id
            /\ \A o \in 1..Len(n.outputs) : Get(nodeOutputs, n.outputs[o].id) = firstInput

\* a muted image editor passed by the run whose first input (the image)
\* received an image while its second input received a text
C4_Witness ==
  \E i \in 1..Len(executionOrder) :
    LET n == capNodes[executionOrder[i]]
    IN /\ i < idx
       /\ n.isMuted
       /\ n.type = "IMAGE_EDITOR"
       /\ IsImageValue(PortValue(n.id, n.inputs[1].id))
       /\ Truthy(PortValue(n.id, n.inputs[2].id))
       /\ ~IsImageValue(PortValue(n.id, n.inputs[2].id))
       /\ Get(nodeOutputs, n.outputs[2].id) = PortValue(n.id, n.inputs[1].id)

\* the unmuted preset nodes with the aggregating multi-image port
IsMultiImagePreset(n) ==
  /\ n.type = "PROMPT_PRESET"
  /\ ~n.isMuted
  /\ \E i \in 1..Len(n.inputs) : n.inputs[i].id = HandleId(n.id, "input-multi-image")

\* C5: for an unmuted preset node whose multi-image port is the target of N
\* edges, the values collected for the port at dispatch are N values, the
\* m-th being the value of the m-th of these edges in creation order; and a
\* multi-image transform call made for the node receives the images among
\* these values in that order.
C5_AggregationOrder ==
  /\ (pc = "await" /\ IsMultiImagePreset(CurrentNode))
       => LET into == EdgesInto(CurrentNodeId, HandleId(CurrentNodeId, "input-multi-image"))
              raw == ImageInputsRaw(CurrentNode, inputs, capEdges, nodeOutputs)
          IN /\ Len(raw) = Cardinality(into)
             /\ \A m \in 1..Len(raw) : raw[m] = EdgeValue(Nth(into, m))
  /\ \A k \in 1..Len(calls) :
       (calls[k].fn = "executePreset" /\ IsMultiImagePreset(capNodes[calls[k].node]))
         => LET id == calls[k].node
                images == {e \in EdgesInto(id, HandleId(id, "input-multi-image")) :
                             IsImageValue(EdgeValue(e))}
            IN /\ Len(calls[k].images) = Cardinality(images)
               /\ \A m \in 1..Len(calls[k].images) :
                    DataUrl(calls[k].images[m].mimeType, calls[k].images[m].data)
                      = EdgeValue(Nth(images, m)).s

\* a multi-image transform call with two images, the edge from the second
\* image input created before the edge from the first
C5_Witness ==
  \E k \in 1..Len(calls) :
    /\ calls[k].fn = "executePreset"
    /\ IsMultiImagePreset(capNodes[calls[k].node])
    /\ Len(calls[k].images) = 2
    /\ calls[k].images[1].data = "IMG2"
    /\ calls[k].images[2].data = "IMG1"

\* the run stands halted at the node: Error status with a message, nothing
\* after it in the order executed
HaltedAt(id) ==
  /\ nodes[id].status = "ERROR"
  /\ nodes[id].errorMessage # NoError
  /\ pc = "idle"
  /\ \A i \in 1..Len(executionOrder) :
       executionOrder[i] = id =>
         \A later \in LaterInOrder(i) : nodes[later].status = "IDLE"

\* C8: when the text-completion call of an unmuted text generator errors
\* (the retry wrapper gave up), the node is in Error status with an
\* errorMessage and the run is halted at it.
C8_TextGeneratorFailure ==
  \A k \in 1..Len(calls) :
    (calls[k].fn = "generateText" /\ calls[k].failed) => HaltedAt(calls[k].node)

\* C9: when a video generation fails (the initiating or a status call
\* errors after retries, or the operation completes without a video uri),
\* the video generator node is in Error status and the run is halted at it.
C9_VideoGeneratorFailure ==
  \A k \in 1..Len(calls) :
    (calls[k].fn = "generateVideo" /\ calls[k].failed) => HaltedAt(calls[k].node)

\* C10: the dispatch of an unmuted image editor whose text input port
\* carries no prompt (no edge, or a falsy value such as "") ends with the
\* node in Error status with the validation message and the run over, at
\* that node, without a call to the generation service and without a new
\* HistoryItem.
C10_MissingPrompt ==
  [][(/\ pc = "await"
      /\ CurrentNode.type = "IMAGE_EDITOR"
      /\ ~Truthy(PortValue(CurrentNodeId, HandleId(CurrentNodeId, "input-text"))))
       => /\ nodes'[CurrentNodeId].status = "ERROR"
          /\ nodes'[CurrentNodeId].errorMessage =
               "A text prompt is required for image generation/editing."
          /\ pc' = "idle"
          /\ ~isProcessing'
          /\ idx' = idx
          /\ calls' = calls
          /\ history' = history]_vars

\* an image editor that failed for want of a prompt: its image port received
\* an image, its text port the empty content of a text input; a node fed by
\* nothing stands after it
C10_Witness ==
  \E i \in 1..Len(executionOrder) :
    LET n == capNodes[executionOrder[i]]
    IN /\ n.type = "IMAGE_EDITOR"
       /\ ~n.isMuted
       /\ nodes[n.id].status = "ERROR"
       /\ nodes[n.id].errorMessage = "A text prompt is required for image generation/editing."
       /\ IsImageValue(PortValue(n.id, HandleId(n.id, "input-image")))
       /\ EdgesInto(n.id, HandleId(n.id, "input-text")) # {}
       /\ PortValue(n.id, HandleId(n.id, "input-text")) = Str("")
       /\ calls = <<>>
       /\ history = <<>>

\* C11: the dispatch of an unmuted image editor that ends with the node
\* Completed (edit mode or generation mode) puts exactly one new HistoryItem
\* in front of the history, whose dataUrl is the image the node produced and
\* whose prompt is the value of the node's text input port; a dispatch that
\* ends otherwise leaves the history as it was.
C11_ImageEditorHistory ==
  [][(pc = "await" /\ CurrentNode.type = "IMAGE_EDITOR")
       => IF nodes'[CurrentNodeId].status = "COMPLETED"
          THEN /\ Len(history') = Len(history) + 1
               /\ Tail(history') = history
               /\ history'[1].type = "image"
               /\ nodes'[CurrentNodeId].content.tag = "object"
               /\ history'[1].dataUrl = nodes'[CurrentNodeId].content.image
               /\ Str(history'[1].dataUrl) = Get(nodeOutputs', HandleId(CurrentNodeId, "output-image"))
               /\ history'[1].prompt = PortValue(CurrentNodeId, HandleId(CurrentNodeId, "input-text"))
          ELSE history' = history]_vars

\* an image editor that edited the image of an image input under the prompt
\* of a text input, the response holding an image and a text: one HistoryItem
C11_Witness ==
  /\ Len(history) = 1
  /\ \E a \in DOMAIN nodes :
       /\ nodes[a].type = "IMAGE_EDITOR"
       /\ nodes[a].status = "COMPLETED"
       /\ ~nodes[a].content.textIsNull
       /\ history[1].dataUrl = nodes[a].content.image
       /\ history[1].prompt = PortValue(a, HandleId(a, "input-text"))
       /\ IsImageValue(PortValue(a, HandleId(a, "input-image")))
       /\ \E k \in 1..Len(calls) : calls[k].fn = "editImage" /\ calls[k].node = a

\* the text field of an {image, text} content, as a value
TextField(content) == IF content.textIsNull THEN Null ELSE Str(content.text)

\* C19: for an unmuted node the run has passed: if it is an image editor or
\* a preset node whose output is an {image, text} object, each of its
\* image-typed output ports carries the image field and each text-typed one
\* the text field; if it is of any other kind, every output port carries the
\* node's output (its content) unchanged, and the content of an output
\* display is the value of its input port.
C19_OutputRouting ==
  \A i \in 1..Len(executionOrder) :
    LET n == capNodes[executionOrder[i]]
        output == nodes[n.id].content
    IN (i < idx /\ ~n.isMuted)
         => /\ nodes[n.id].status = "COMPLETED"
            /\ IF n.type \in {"IMAGE_EDITOR", "PROMPT_PRESET"}
               THEN /\ output.tag = "object"
                    /\ \A o \in 1..Len(n.outputs) :
                         /\ n.outputs[o].type = "image"
                              => Get(nodeOutputs, n.outputs[o].id) = Str(output.image)
                         /\ n.outputs[o].type = "text"
                              => Get(nodeOutputs, n.outputs[o].id) = TextField(output)
               ELSE /\ \A o \in 1..Len(n.outputs) : Get(nodeOutputs, n.outputs[o].id) = output
                    /\ n.type = "OUTPUT_DISPLAY"
                         => output = PortValue(n.id, HandleId(n.id, "input"))

\* an image editor that generated an image (its text field null) and an
\* output display fed from its image port, whose content is that image
C19_Witness ==
  \E i, j \in 1..Len(executionOrder) :
    LET n == capNodes[executionOrder[i]]
        d == capNodes[executionOrder[j]]
    IN /\ i < j /\ j < idx
       /\ n.type = "IMAGE_EDITOR" /\ ~n.isMuted
       /\ d.type = "OUTPUT_DISPLAY" /\ ~d.isMuted
       /\ nodes[n.id].content.tag = "object"
       /\ \E k \in 1..Len(capEdges) :
            /\ capEdges[k].sourceHandleId = HandleId(n.id, "output-image")
            /\ capEdges[k].targetNodeId = d.id
       /\ nodes[d.id].content = Str(nodes[n.id].content.image)
       /\ Get(nodeOutputs, HandleId(n.id, "output-text")) = Null

\* some input of the preset node resolves to an image
HasImageInput(n) ==
  IF \E i \in 1..Len(n.inputs) : n.inputs[i].id = HandleId(n.id, "input-multi-image")
  THEN \E e \in EdgesInto(n.id, HandleId(n.id, "input-multi-image")) : IsImageValue(EdgeValue(e))
  ELSE \E i \in 1..Len(n.inputs) : IsImageValue(PortValue(n.id, n.inputs[i].id))

\* C20: the dispatch of an unmuted preset node none of whose inputs resolves
\* to an image ends with the node in Error status and the run over at that
\* node, without a call to the generation service and without a new
\* HistoryItem; a dispatch that ends with the node Completed puts exactly one
\* new HistoryItem in front of the history, whose prompt is the node's prompt
\* template and whose dataUrl is the image produced.
C20_PresetDispatch ==
  [][(pc = "await" /\ CurrentNode.type = "PROMPT_PRESET")
       => /\ ~HasImageInput(CurrentNode)
               => /\ nodes'[CurrentNodeId].status = "ERROR"
                  /\ nodes'[CurrentNodeId].errorMessage # NoError
                  /\ pc' = "idle"
                  /\ ~isProcessing'
                  /\ idx' = idx
                  /\ calls' = calls
                  /\ history' = history
          /\ nodes'[CurrentNodeId].status = "COMPLETED"
               => /\ Len(history') = Len(history) + 1
                  /\ Tail(history') = history
                  /\ history'[1].prompt = Str(CurrentNode.prompt)
                  /\ history'[1].dataUrl = nodes'[CurrentNodeId].content.image
          /\ nodes'[CurrentNodeId].status # "COMPLETED" => history' = history]_vars

\* a preset node with the multi-image port that failed for want of an image:
\* the port received the text of a text input and the null content of an
\* image input
C20_Witness ==
  \E i \in 1..Len(executionOrder) :
    LET n == capNodes[executionOrder[i]]
    IN /\ IsMultiImagePreset(n)
       /\ nodes[n.id].status = "ERROR"
       /\ nodes[n.id].errorMessage = "Missing required inputs for preset"
       /\ Cardinality(EdgesInto(n.id, HandleId(n.id, "input-multi-image"))) = 2
       /\ \E e \in EdgesInto(n.id, HandleId(n.id, "input-multi-image")) : Truthy(EdgeValue(e))
       /\ \E e \in EdgesInto(n.id, HandleId(n.id, "input-multi-image")) : EdgeValue(e) = Null
       /\ calls = <<>>
       /\ history = <<>>

\* the step is the start of a run
RunStarts == runs' = runs + 1
IsInputNode(n) == n.type \in {"TEXT_INPUT", "IMAGE_INPUT"}

\* C14: the start of a run leaves every node Idle with no errorMessage, the
\* content of every node that is no text input or image input empty, and
\* the content of every text input and image input as it was; and when the
\* run is over the content of every text input and image input is the
\* content it had before the run.
C14_ResetAtStart ==
  [][/\ RunStarts
          => \A id \in DOMAIN nodes :
               /\ nodes'[id].status = "IDLE"
               /\ nodes'[id].errorMessage = NoError
               /\ nodes'[id].content = IF IsInputNode(nodes[id]) THEN nodes[id].content ELSE Null
               /\ (IsInputNode(nodes[id]) /\ pc' = "loop")
                    => capNodes'[id].content = nodes[id].content
     /\ (~RunStarts /\ pc' = "idle" /\ pc # "idle")
          => \A id \in DOMAIN nodes :
               IsInputNode(nodes[id]) => nodes'[id].content = capNodes[id].content]_vars

\* a run that is over: the text input was executed and holds its text again,
\* and a muted video generator, completed without a dispatch, holds no content
C14_Witness ==
  /\ runs > 0
  /\ pc = "idle"
  /\ ~isProcessing
  /\ \E a, b \in DOMAIN nodes :
       /\ nodes[a].type = "TEXT_INPUT"
       /\ ~nodes[a].isMuted
       /\ nodes[a].status = "COMPLETED"
       /\ nodes[a].content = TextOf(a)
       /\ nodes[b].type = "VIDEO_GENERATOR"
       /\ nodes[b].isMuted
       /\ nodes[b].status = "COMPLETED"
       /\ nodes[b].content = Null
       /\ nodes[b].errorMessage = NoError

\* C15 as stated: within a run the status of a node changes only from Idle
\* to Processing, from Processing to Completed and from Processing to Error.
C15_AsStated ==
  [][\A id \in DOMAIN nodes :
       (~RunStarts /\ nodes'[id].status # nodes[id].status)
         => <<nodes[id].status, nodes'[id].status>> \in
              {<<"IDLE", "PROCESSING">>, <<"PROCESSING", "COMPLETED">>,
               <<"PROCESSING", "ERROR">>}]_vars

\* C15 (amended): within a run the status of an unmuted node changes only
\* from Idle to Processing, from Processing to Completed and from Processing
\* to Error, and the status of a muted node only from Idle to Completed; so
\* a node that is Completed or Error stays so until the next run starts.
C15_StatusTransitions ==
  [][\A id \in DOMAIN nodes :
       (~RunStarts /\ nodes'[id].status # nodes[id].status)
         => IF capNodes[id].isMuted
            THEN <<nodes[id].status, nodes'[id].status>> = <<"IDLE", "COMPLETED">>
            ELSE <<nodes[id].status, nodes'[id].status>> \in
                   {<<"IDLE", "PROCESSING">>, <<"PROCESSING", "COMPLETED">>,
                    <<"PROCESSING", "ERROR">>}]_vars

\* a run of two connected nodes: the muted first node is Completed and the
\* unmuted second one failed
C15_Witness ==
  /\ runs > 0
  /\ Len(executionOrder) = 2
  /\ capNodes[executionOrder[1]].isMuted
  /\ nodes[executionOrder[1]].status = "COMPLETED"
  /\ ~capNodes[executionOrder[2]].isMuted
  /\ nodes[executionOrder[2]].status = "ERROR"
  /\ \E k \in 1..Len(capEdges) :
       /\ capEdges[k].sourceNodeId = executionOrder[1]
       /\ capEdges[k].targetNodeId = executionOrder[2]

\* C16: a run that has started (isProcessing true) eventually ends
\* (isProcessing false), the awaited calls returning.
C16_RunEnds == isProcessing ~> ~isProcessing

\* C17: no step of a run removes, reorders or changes the HistoryItems there
\* are; the history grows by one item when the dispatch of an image editor
\* or a preset node ends with the node Completed, and by none in every other
\* step.
C17_HistoryAppendOnly ==
  [][LET grown == Len(history') - Len(history)
     IN /\ grown >= 0
        /\ SubSeq(history', grown + 1, Len(history')) = history
        /\ grown = IF /\ pc = "await"
                      /\ CurrentNode.type \in {"IMAGE_EDITOR", "PROMPT_PRESET"}
                      /\ nodes'[CurrentNodeId].status = "COMPLETED"
                   THEN 1 ELSE 0]_vars

\* a run over a loaded workflow in which an image editor added an item in
\* front of the item the file held, after a text input was executed
C17_Witness ==
  /\ Len(history) = 2
  /\ history[2] = SavedItem
  /\ history[1] # SavedItem
  /\ \E a, b \in DOMAIN nodes :
       /\ nodes[a].type = "TEXT_INPUT" /\ nodes[a].status = "COMPLETED" /\ ~nodes[a].isMuted
       /\ nodes[b].type = "IMAGE_EDITOR" /\ nodes[b].status = "COMPLETED" /\ ~nodes[b].isMuted
       /\ history[1].dataUrl = nodes[b].content.image

(***************************************************************************)
(* Notions the editor claims are stated with.                              *)
(***************************************************************************)
\* the edges that end at an input port
EdgesAt(es, nodeId, handleId) ==
  {k \in 1..Len(es) : es[k].targetNodeId = nodeId /\ es[k].targetHandleId = handleId}
\* the aggregating port: the multi-image input of a preset node
Aggregating(nodeId, handleId) ==
  /\ nodeId \in DOMAIN nodes
  /\ nodes[nodeId].type = "PROMPT_PRESET"
  /\ handleId = HandleId(nodeId, "input-multi-image")
\* the drag under way began at an output port that exists, of this type
DraggedPortTypes ==
  IF connectingEdge.sourceNodeId \notin DOMAIN nodes THEN {}
  ELSE {nodes[connectingEdge.sourceNodeId].outputs[o].type :
          o \in {x \in 1..Len(nodes[connectingEdge.sourceNodeId].outputs) :
                   nodes[connectingEdge.sourceNodeId].outputs[x].id = connectingEdge.sourceHandleId}}
Compatible(sourceType, targetType) ==
  sourceType = targetType \/ sourceType = "any" \/ targetType = "any"
\* the step added the edge from the dragged port to the input port, and
\* nothing else changed among the edges
EdgeAdded(nodeId, handleId) ==
  /\ Len(edges') = Len(edges) + 1
  /\ \A k \in 1..Len(edges) : edges'[k] = edges[k]
  /\ edges'[Len(edges')].sourceNodeId = connectingEdge.sourceNodeId
  /\ edges'[Len(edges')].sourceHandleId = connectingEdge.sourceHandleId
  /\ edges'[Len(edges')].targetNodeId = nodeId
  /\ edges'[Len(edges')].targetHandleId = handleId

\* C12: a release of a connection drag on an input handle creates an edge
\* only if the port is free or is the aggregating multi-image port, and the
\* type of the dragged output port and the type of the port are compatible.
C12_PreciseDrop ==
  [][\A n \in DOMAIN nodes : \A i \in 1..Len(nodes[n].inputs) :
       (DropOnHandle(n, i) /\ Len(edges') > Len(edges))
         => /\ \/ EdgesAt(edges, n, nodes[n].inputs[i].id) = {}
               \/ Aggregating(n, nodes[n].inputs[i].id)
            /\ \E t \in DraggedPortTypes : Compatible(t, nodes[n].inputs[i].type)]_vars

\* C13: in every graph the editor reaches from the empty one, an input port
\* other than the aggregating multi-image port is the target of at most one
\* edge.
C13_SingleEdgePerPort ==
  \A j, k \in 1..Len(edges) :
    (j # k /\ edges[j].targetNodeId = edges[k].targetNodeId
           /\ edges[j].targetHandleId = edges[k].targetHandleId)
      => Aggregating(edges[k].targetNodeId, edges[k].targetHandleId)

\* a graph of two connected nodes and their pasted copies, the copied edge
\* ending at a single-edge port of the copy
C13_Witness ==
  /\ Len(edges) = 2
  /\ Len(nodeOrder) = 4
  /\ clipboard.set
  /\ \E k \in 1..Len(edges) :
       /\ edges[k].targetNodeId > MaxAdded
       /\ edges[k].sourceNodeId > MaxAdded
       /\ edges[k].targetNodeId \in DOMAIN nodes
       /\ edges[k].targetHandleId[1] = edges[k].targetNodeId
       /\ ~Aggregating(edges[k].targetNodeId, edges[k].targetHandleId)
  /\ lastDrop.created

\* the input ports of a node that a drop on the node may be routed to
Qualifying(n) ==
  {i \in 1..Len(nodes[n].inputs) :
     /\ \E t \in DraggedPortTypes : Compatible(t, nodes[n].inputs[i].type)
     /\ \/ EdgesAt(edges, n, nodes[n].inputs[i].id) = {}
        \/ Aggregating(n, nodes[n].inputs[i].id)}

\* C18: a release of a connection drag on a node, off its handles, adds the
\* edge to the first input port in declaration order that is type-compatible
\* with the dragged output port and is unconnected or the aggregating port;
\* when no input port qualifies, or the node is the source node, it adds none.
C18_AutoRoute ==
  [][\A n \in DOMAIN nodes :
       DropOnNode(n)
         => IF Qualifying(n) # {} /\ n # connectingEdge.sourceNodeId
            THEN EdgeAdded(n, nodes[n].inputs[Min(Qualifying(n))].id)
            ELSE edges' = edges]_vars

\* a release on an image editor that routed a text output to the second
\* input port, the first one (image) being free
C18_Witness ==
  /\ lastDrop.on = "node"
  /\ lastDrop.created
  /\ lastDrop.target \in DOMAIN nodes
  /\ nodes[lastDrop.target].type = "IMAGE_EDITOR"
  /\ edges[Len(edges)].targetNodeId = lastDrop.target
  /\ edges[Len(edges)].targetHandleId = HandleId(lastDrop.target, "input-text")
  /\ EdgesAt(edges, lastDrop.target, HandleId(lastDrop.target, "input-image")) = {}

(***************************************************************************)
(* Notions the retry claims are stated with.                               *)
(***************************************************************************)
RetryOver == retry.pc \in {"returned", "threw"}
\* the k-th invocation of the wrapped call fails with a rate-limit-class
\* error: an Error whose JSON message carries code 429 or status
\* RESOURCE_EXHAUSTED, or whose message is no JSON and contains "429" or,
\* in any letter case, "rate limit"
RateLimitFailure(k) ==
  /\ ~retry.script[k].ok
  /\ retry.script[k].thrown \in
       {ErrorOf(Thrown429Json), ErrorOf(ThrownExhaustedJson),
        ErrorOf("Rate Limit reached"), ErrorOf("HTTP 429 Too Many Requests")}
\* the k-th invocation fails with an error of another class
OtherFailure(k) == ~retry.script[k].ok /\ ~RateLimitFailure(k)

\* C6: when the wrapped call fails twice with a rate-limit-class error and
\* then succeeds, the wrapper returns the success value after exactly 3
\* invocations; when its first failure is not rate-limit-class, the wrapper
\* throws that error after exactly 1 invocation and no wait.
C6_RetryThenSucceed ==
  RetryOver =>
    /\ (RateLimitFailure(1) /\ RateLimitFailure(2) /\ retry.script[3].ok)
         => /\ retry.pc = "returned"
            /\ retry.result = ApiResponse
            /\ retry.invocations = 3
    /\ OtherFailure(1)
         => /\ retry.pc = "threw"
            /\ retry.error = retry.script[1].thrown
            /\ retry.invocations = 1
            /\ retry.waits = <<>>

\* a call that returned at its third invocation after two rate-limit
\* failures and two waits
C6_Witness ==
  /\ retry.pc = "returned"
  /\ RateLimitFailure(1)
  /\ RateLimitFailure(2)
  /\ retry.script[1].thrown # retry.script[2].thrown
  /\ retry.invocations = 3
  /\ Len(retry.waits) = 2

\* C7: the wrapped call is invoked at most 3 times; when three invocations
\* fail with rate-limit-class errors the wrapper throws the error of the
\* third, having waited after the first and the second only.
C7_AttemptBudget ==
  /\ retry.invocations <= 3
  /\ (RetryOver /\ RateLimitFailure(1) /\ RateLimitFailure(2) /\ RateLimitFailure(3))
       => /\ retry.pc = "threw"
          /\ retry.error = retry.script[3].thrown
          /\ retry.invocations = 3
          /\ Len(retry.waits) = 2

\* a call that threw the third of three different rate-limit errors while
\* a fourth invocation would have succeeded
C7_Witness ==
  /\ retry.pc = "threw"
  /\ RateLimitFailure(1) /\ RateLimitFailure(2) /\ RateLimitFailure(3)
  /\ retry.script[3].thrown \notin {retry.script[1].thrown, retry.script[2].thrown}
  /\ retry.script[4].ok
  /\ retry.error = retry.script[3].thrown

(***************************************************************************)
(* The order of execution within a run.                                    *)
(***************************************************************************)
\* the captured edges that enter the node
IncomingEdges(nodeId) == {k \in 1..Len(capEdges) : capEdges[k].targetNodeId = nodeId}
\* the loop stands at a node: about to begin it, or awaiting its dispatch
AtNode == pc \in {"loop", "await"} /\ idx <= Len(executionOrder)
ProcessingNodes == {id \in DOMAIN nodes : nodes[id].status = "PROCESSING"}

\* C21: whenever a node of the run begins execution (it is about to enter
\* Processing or to be passed through as muted, or it is being executed),
\* the source node of every edge that enters it has status Completed.
C21_UpstreamCompleted ==
  AtNode => \A k \in IncomingEdges(CurrentNodeId) :
              /\ capEdges[k].sourceNodeId \in DOMAIN nodes
              /\ nodes[capEdges[k].sourceNodeId].status = "COMPLETED"

\* a node in execution that two other nodes feed, one of them muted, the one
\* with the higher key feeding it by the older edge
C21_Witness ==
  /\ pc = "await"
  /\ \E i, j \in IncomingEdges(CurrentNodeId) :
       /\ i < j
       /\ capEdges[i].sourceNodeId > capEdges[j].sourceNodeId
       /\ capEdges[j].sourceNodeId > CurrentNodeId
       /\ capNodes[capEdges[i].sourceNodeId].isMuted
       /\ ~capNodes[capEdges[j].sourceNodeId].isMuted
       /\ nodes[capEdges[i].sourceNodeId].status = "COMPLETED"
       /\ nodes[capEdges[j].sourceNodeId].status = "COMPLETED"

\* the edges of the graph that leave a node of it and enter a node of it
ValidEdges(ns, es) ==
  Filter(es, {e \in Range(es) : e.sourceNodeId \in DOMAIN ns /\ e.targetNodeId \in DOMAIN ns})

\* C24: a run of a graph with an edge whose source node or target node is
\* not in the node set begins as if the edge were absent: the execution order
\* is the one computed from the other edges, and the loop over it begins.
C24_DanglingEdgeIgnored ==
  [][runs' > runs
       => /\ pc' = "loop"
          /\ executionOrder' = ExecutionOrder(nodeOrder, ValidEdges(nodes, edges))]_vars

\* C22: while a run is in progress at most one node has status Processing,
\* and when a node is Processing the node executed before it is Completed.
C22_OneNodeProcessing ==
  isProcessing =>
    /\ Cardinality(ProcessingNodes) <= 1
    /\ (pc = "await" /\ idx > 1) => nodes[executionOrder[idx - 1]].status = "COMPLETED"
    /\ pc = "await" => ProcessingNodes = {CurrentNodeId}

\* the second of three nodes with no edges between them is Processing, the
\* first is Completed, the third still Idle
C22_Witness ==
  /\ isProcessing
  /\ pc = "await"
  /\ capEdges = <<>>
  /\ Len(executionOrder) = 3
  /\ idx = 2
  /\ ~capNodes[executionOrder[1]].isMuted
  /\ nodes[executionOrder[1]].status = "COMPLETED"
  /\ nodes[executionOrder[2]].status = "PROCESSING"
  /\ nodes[executionOrder[3]].status = "IDLE"

\* C27: the step that halts a run at a failing node changes nothing but the
\* status and the errorMessage of that node: every node executed before it
\* is Completed and keeps its content, the failing node keeps the content it
\* had, and the values on the output ports and the history stay as they were.
C27_HaltKeepsResults ==
  [][(pc = "await" /\ pc' = "idle")
       => /\ DOMAIN nodes' = DOMAIN nodes
          /\ \A id \in DOMAIN nodes \ {CurrentNodeId} : nodes'[id] = nodes[id]
          /\ \A j \in 1..(idx - 1) : nodes'[executionOrder[j]].status = "COMPLETED"
          /\ nodes'[CurrentNodeId] =
               [nodes[CurrentNodeId] EXCEPT !.status = "ERROR",
                                            !.errorMessage = nodes'[CurrentNodeId].errorMessage]
          /\ nodes'[CurrentNodeId].errorMessage # NoError
          /\ nodeOutputs' = nodeOutputs
          /\ history' = history]_vars

\* a run halted at its third node: a text input holding its text and an
\* image editor holding the image it made stand Completed before it, and the
\* history holds the item of the image editor
C27_Witness ==
  /\ pc = "idle"
  /\ runs > 0
  /\ Len(executionOrder) = 3
  /\ idx = 3
  /\ nodes[executionOrder[3]].status = "ERROR"
  /\ capNodes[executionOrder[1]].type = "TEXT_INPUT"
  /\ nodes[executionOrder[1]].status = "COMPLETED"
  /\ nodes[executionOrder[1]].content = TextOf(executionOrder[1])
  /\ capNodes[executionOrder[2]].type = "IMAGE_EDITOR"
  /\ nodes[executionOrder[2]].status = "COMPLETED"
  /\ nodes[executionOrder[2]].content.tag = "object"
  /\ Len(history) = 1

(***************************************************************************)
(* The classification of failures by withRetry.                            *)
(***************************************************************************)
\* the structured error of the thrown value has code 429 or status
\* RESOURCE_EXHAUSTED
StructuredMatch(error) ==
  /\ JsonParse(error.message).ok
  /\ \/ JsonParse(error.message).code = 429
     \/ JsonParse(error.message).status = "RESOURCE_EXHAUSTED"
\* the message text of the thrown value contains "429" or, in any letter
\* case, "rate limit"
TextualMatch(error) ==
  \/ Includes(error.message, "429")
  \/ Includes(ToLowerCase(error.message), "rate limit")

\* C28: a failure of an attempt that matches the structured test or the
\* textual test is retried while attempts remain; a failure that matches
\* neither is thrown on at once.
C28_Classification ==
  [][(/\ retry.pc = "call"
      /\ retry'.invocations = retry.invocations + 1
      /\ ~retry.script[retry'.invocations].ok)
       => LET error == retry.script[retry'.invocations].thrown
          IN IF StructuredMatch(error) \/ TextualMatch(error)
             THEN retry.i < MAX_RETRIES - 1 => retry'.pc = "delay"
             ELSE retry'.pc = "threw" /\ retry'.error = error]_vars

(***************************************************************************)
(* The edges the editor leaves.                                            *)
(***************************************************************************)
\* C30: in a graph made by editor operations from the empty graph, every
\* edge leaves a node of the node map and enters another node of it.
C30_EdgesJoinNodes ==
  \A k \in 1..Len(edges) :
    /\ edges[k].sourceNodeId \in DOMAIN nodes
    /\ edges[k].targetNodeId \in DOMAIN nodes
    /\ edges[k].sourceNodeId # edges[k].targetNodeId

(***************************************************************************)
(* The events of a video generation.                                       *)
(***************************************************************************)
\* the places of the events of a kind
EventsOfKind(kind) == {k \in 1..Len(video.events) : video.events[k].kind = kind}
\* the API calls before place k
CallsBefore(k) == {j \in 1..(k - 1) : video.events[j].kind \in {"initiate", "status"}}
IsProgress(k, text) ==
  /\ k \in 1..Len(video.events)
  /\ video.events[k] = Ev("progress", text)
CompletionMessage == "Video processing complete. Fetching video..."

\* C25: the events of a video generation come in this order: the initiating
\* call (one, before everything but the first progress message); for each
\* poll a sleep of the fixed interval, then the progress callback, then one
\* status call; then the completion message and the fetch. Every status call
\* follows a call that answered "not done", so none is made before the
\* initiating call returned or after the operation was reported done, and
\* none at all when the initiating call reported it done.
C25_EventOrder ==
  LET ev == video.events
  IN /\ ev # <<>> => /\ Len(ev) >= 2
                     /\ ev[1] = Ev("progress", "Starting video generation...")
                     /\ EventsOfKind("initiate") = {2}
     /\ \A k \in EventsOfKind("status") :
          /\ k > 3
          /\ IsProgress(k - 1, "Checking video status...")
          /\ ev[k - 2].kind = "sleep"
          /\ ev[k - 2].ms = POLL_INTERVAL_MS
          /\ ev[Max(CallsBefore(k))].text = "pending"
     /\ \A k \in EventsOfKind("sleep") :
          /\ ev[Max(CallsBefore(k))].text = "pending"
          /\ k + 1 <= Len(ev) => /\ IsProgress(k + 1, "Checking video status...")
                                 /\ k + 2 <= Len(ev)
                                 /\ ev[k + 2].kind = "status"
     /\ Cardinality(EventsOfKind("status")) = video.polls
     /\ Cardinality(EventsOfKind("sleep")) =
          video.polls + (IF video.pc = "status" THEN 1 ELSE 0)
     /\ \A k \in 1..Len(ev) :
          ev[k] = Ev("progress", CompletionMessage)
            => /\ ev[Max(CallsBefore(k))].text \in {"done", "doneNoUri"}
               /\ \A j \in (k + 1)..Len(ev) : ev[j].kind \in {"fetch", "progress"}
     /\ \A k \in EventsOfKind("fetch") : IsProgress(k - 1, CompletionMessage)
     /\ video.pc = "returned" /\ ~video.failed /\ video.prompt # ""
          => /\ Cardinality(EventsOfKind("fetch")) = 1
             /\ IsProgress(Len(ev), "Video fetched successfully.")

\* a video was fetched after two polls
C25_Witness ==
  /\ video.pc = "returned"
  /\ video.result = VideoObjectUrl
  /\ video.polls = 2
  /\ video.hasImage

\* C26: the polling loop goes on after a status call exactly when the call
\* answered "not done" (it ends when the call reports done or raises an
\* error, and on nothing else: there is no limit on the polls); and once the
\* operation is reported done the video generation returns.
C26_PollingEnds ==
  /\ [][video.pc = "status"
          => /\ video'.pc = "sleep" <=> video'.events[Len(video'.events)] = Ev("status", "pending")
             /\ video'.pc = "fetch" <=> video'.done
             /\ video'.pc = "returned" <=> video'.failed]_vars
  /\ [][video.pc = "sleep" => video'.pc = "status"]_vars
  /\ video.done ~> video.pc = "returned"

\* after as many polls as the model makes, the operation is still not done
\* and the loop is about to sleep again
C26_Witness ==
  /\ video.pc = "sleep"
  /\ video.polls = MaxVideoPolls
  /\ ~video.done
  /\ ~video.failed

(***************************************************************************)
(* Runs and the editor.                                                    *)
(***************************************************************************)
\* a step of the run in progress, and a step of the editor
RunStep == runs' = runs /\ editorOps' = editorOps /\ pc # "idle"
EditorStep == editorOps' # editorOps

\* C23: runWorkflow is called only when no run is in progress: no control
\* starts a run while an earlier run has not returned.
C23_OneRunAtATime ==
  [][runs' > runs => ~isProcessing /\ pc = "idle"]_vars

\* a second run is in progress, started after the first one returned, and
\* the controls are disabled
C23_Witness ==
  /\ runs = 2
  /\ isProcessing
  /\ pc = "await"
  /\ \A trigger \in RunTriggers : ~RunEnabled(trigger)

\* C29: while a run is in progress, the execution order and the edges it
\* routes values by stay the ones captured at its start, whatever the editor
\* does; the inputs gathered for a node are those of the captured edges; and
\* a step of the run writes to the node being executed only: if that node
\* was deleted, the write is dropped and the node map stays as it is.
C29_CapturedTopology ==
  [][/\ (runs' = runs /\ pc # "idle")
         => /\ executionOrder' = executionOrder
            /\ capEdges' = capEdges
            /\ capNodes' = capNodes
     /\ EditorStep => /\ nodeOutputs' = nodeOutputs
                      /\ inputs' = inputs
                      /\ idx' = idx
                      /\ pc' = pc
     /\ RunStep => /\ DOMAIN nodes' = DOMAIN nodes
                   /\ nodeOrder' = nodeOrder
                   /\ edges' = edges
                   /\ IF idx <= Len(executionOrder)
                      THEN \A id \in DOMAIN nodes \ {CurrentNodeId} : nodes'[id] = nodes[id]
                      ELSE nodes' = nodes
     /\ (RunStep /\ pc = "loop" /\ idx <= Len(executionOrder))
          => inputs' = GatherInputs(CurrentNodeId, capEdges, nodeOutputs)]_vars

\* a run went on past a text input that was deleted, with its edge, during
\* the run: the node is not in the node map, and the text generator after it
\* was called with the text of the deleted node and is Completed
C29_Witness ==
  /\ runs = 1
  /\ Len(executionOrder) = 2
  /\ idx > 2
  /\ executionOrder[1] \notin DOMAIN nodes
  /\ executionOrder[2] \in DOMAIN nodes
  /\ nodes[executionOrder[2]].status = "COMPLETED"
  /\ nodes[executionOrder[2]].content = Str(GeneratedText)
  /\ capNodes[executionOrder[1]].type = "TEXT_INPUT"
  /\ edges = <<>>
  /\ capEdges # <<>>
  /\ \E k \in 1..Len(calls) : calls[k].prompt = TextOf(executionOrder[1])

====
